---- MODULE Spec2Model ----
(***************************************************************************)
(* Options-arbitrage portfolio construction of strato-model:               *)
(*   mft/stochastic_arbitrage.rs  construct_portfolio / find_arbitrage     *)
(*   pricing/bs.rs                black_scholes_call / black_scholes_put   *)
(*                                                                         *)
(* One request runs construct_portfolio from its first line to its return  *)
(* (or to the panic that ends it).  Every helper of find_arbitrage is an   *)
(* operator that builds the same variables, objective and constraints as   *)
(* the Rust code, and one action per helper call puts them in the problem. *)
(*                                                                         *)
(* Numbers.  f64 amounts are modelled as integers of one common unit; a    *)
(* right-hand side the code obtains by a division (capital / n) is kept    *)
(* as the fraction num/den and compared by cross-multiplication.  Floating *)
(* rounding and the solver's tolerance are not modelled.                   *)
(*                                                                         *)
(* LP backend.  good_lp's default solver is an external crate.  It is      *)
(* modelled by its contract on the linear program over real variables:     *)
(* Err(Infeasible) when no point within the variable bounds satisfies      *)
(* every constraint, otherwise any optimal basic solution, computed        *)
(* exactly (fractions) by the simplex method.                              *)
(***************************************************************************)
EXTENDS Integers, Sequences, FiniteSets, TLC

\* ------------------------------------------------------------------ bounds
\* Largest number of instruments in a request.
MaxAssets == 2
\* Largest number of benchmark states (length of index_returns).
MaxStates == 2
\* Largest number of risk levels.
MaxRiskLevels == 2

\* ----------------------------------------------------------------- helpers
Max(a, b) == IF a >= b THEN a ELSE b
Min(a, b) == IF a <= b THEN a ELSE b

\* good_lp::Expression: a linear form, one integer coefficient per variable of
\* the problem (variable v is the v-th one added to ProblemVariables).
ZeroExpr(nv) == [j \in 1..nv |-> 0]
Term(v, c, nv) == [j \in 1..nv |-> IF j = v THEN c ELSE 0]
Plus(a, b) == [j \in DOMAIN a |-> a[j] + b[j]]
Scale(a, c) == [j \in DOMAIN a |-> a[j] * c]

RECURSIVE DotUpTo(_, _, _)
DotUpTo(a, x, n) == IF n = 0 THEN 0 ELSE DotUpTo(a, x, n - 1) + a[n] * x[n]

\* Value of the linear form a at the (possibly partial) assignment x.
Dot(a, x) == DotUpTo(a, x, Min(Len(a), Len(x)))

\* Sum of f[1] .. f[n] for a sequence of integers.
RECURSIVE SumSeq(_, _)
SumSeq(f, n) == IF n = 0 THEN 0 ELSE SumSeq(f, n - 1) + f[n]

\* --------------------------------------------------------------- pricing/bs
\* Sign of d1 when sigma == 0 and t > 0: the numerator ln(s/k) + r*t (with
\* r == 0) is divided by sigma*sqrt(t) == 0, so d1 is +inf, -inf or NaN.
D1AtZeroSigma(s, k) ==
    IF k = 0
    THEN (IF s > 0 THEN "+inf" ELSE "nan")
    ELSE IF s = 0 THEN "-inf"
    ELSE IF (s > 0) # (k > 0) THEN "nan"
    ELSE IF s = k THEN "nan"
    ELSE IF (s > 0 /\ s > k) \/ (s < 0 /\ s < k) THEN "+inf"
    ELSE "-inf"

\* d1 of the closed form, on the inputs where f64 arithmetic gives an exact
\* answer: t < 0 makes sqrt(t) NaN; sigma == 0 with r == 0 divides by zero.
D1Class(s, k, t, r, sigma) ==
    CASE t < 0 -> "nan"
      [] t > 0 /\ sigma = 0 /\ r = 0 -> D1AtZeroSigma(s, k)

NaN == "NaN"

\* black_scholes_call whose t == 0 branch returns s - k without the floor at 0.
black_scholes_call_without_floor(s, k, t, r, sigma) ==
    IF t = 0
    THEN s - k
    ELSE CASE D1Class(s, k, t, r, sigma) = "+inf" -> s - k
           [] D1Class(s, k, t, r, sigma) = "-inf" -> 0
           [] D1Class(s, k, t, r, sigma) = "nan" -> NaN

\* bs.rs black_scholes_call: the t == 0 branch first, then the closed form
\* (norm_cdf(+inf) = 1, norm_cdf(-inf) = 0, exp(-0*t) = 1).
black_scholes_call(s, k, t, r, sigma) ==
    IF t = 0
    THEN Max(s - k, 0)
    ELSE CASE D1Class(s, k, t, r, sigma) = "+inf" -> s - k
           [] D1Class(s, k, t, r, sigma) = "-inf" -> 0
           [] D1Class(s, k, t, r, sigma) = "nan" -> NaN

\* bs.rs black_scholes_put.
black_scholes_put(s, k, t, r, sigma) ==
    IF t = 0
    THEN Max(k - s, 0)
    ELSE CASE D1Class(s, k, t, r, sigma) = "+inf" -> 0
           [] D1Class(s, k, t, r, sigma) = "-inf" -> k - s
           [] D1Class(s, k, t, r, sigma) = "nan" -> NaN

\* True when the price of the option is a number (not NaN).
PriceIsNumber(o) ==
    o.t = 0 \/ D1Class(o.s, o.k, o.t, o.r, o.sigma) # "nan"

\* ------------------------------------------- stochastic_arbitrage: helpers
\* A constraint of the problem: lhs op num/den.  kind records which part of
\* find_arbitrage made it.
Constraint(kind, lhs, op, num, den) ==
    [kind |-> kind, lhs |-> lhs, op |-> op, num |-> num, den |-> den]

\* initialize_weights with the short part given the bounds of the net position.
initialize_weights_signed_short(num_assets, liquidity) ==
    LET m == Min(num_assets, Len(liquidity))
        nv == 3 * m
    IN [vars |-> [j \in 1..nv |->
                    LET L == liquidity[((j - 1) \div 3) + 1]
                    IN IF j % 3 = 2 THEN [lo |-> 0, hi |-> L]
                                    ELSE [lo |-> -L, hi |-> L]],
        weights |-> [i \in 1..m |-> 3 * (i - 1) + 1],
        w_plus |-> [i \in 1..m |-> 3 * (i - 1) + 2],
        w_minus |-> [i \in 1..m |-> 3 * (i - 1) + 3],
        constraints |-> [i \in 1..m |->
            Constraint("equality",
                       Plus(Term(3 * (i - 1) + 1, 1, nv),
                            Plus(Term(3 * (i - 1) + 2, -1, nv),
                                 Term(3 * (i - 1) + 3, 1, nv))),
                       "==", 0, 1)]]

\* initialize_weights: one (w, w_p, w_m) triple per element of
\* liquidity.iter().take(num_assets), with bounds -L..L, 0..L, 0..L, and the
\* constraint w == w_p - w_m.
initialize_weights(num_assets, liquidity) ==
    LET m == Min(num_assets, Len(liquidity))
        nv == 3 * m
    IN [vars |-> [j \in 1..nv |->
                    LET L == liquidity[((j - 1) \div 3) + 1]
                    IN IF j % 3 = 1 THEN [lo |-> -L, hi |-> L]
                                    ELSE [lo |-> 0, hi |-> L]],
        weights |-> [i \in 1..m |-> 3 * (i - 1) + 1],
        w_plus |-> [i \in 1..m |-> 3 * (i - 1) + 2],
        w_minus |-> [i \in 1..m |-> 3 * (i - 1) + 3],
        constraints |-> [i \in 1..m |->
            Constraint("equality",
                       Plus(Term(3 * (i - 1) + 1, 1, nv),
                            Plus(Term(3 * (i - 1) + 2, -1, nv),
                                 Term(3 * (i - 1) + 3, 1, nv))),
                       "==", 0, 1)]]

\* compute_theoretical_prices: anything that is not "call" is priced as a put.
compute_theoretical_prices(options) ==
    [i \in 1..Len(options) |->
        IF options[i].option_type = "call"
        THEN black_scholes_call(options[i].s, options[i].k, options[i].t,
                                options[i].r, options[i].sigma)
        ELSE black_scholes_put(options[i].s, options[i].k, options[i].t,
                               options[i].r, options[i].sigma)]

\* The slice indexing theoretical_prices[i], market_prices[i],
\* transaction_costs[i] for every i of weights panics when a slice is shorter.
IndexOutOfBounds(ws, mp, tp, tc) ==
    \E i \in 1..Len(ws) : i > Len(mp) \/ i > Len(tp) \/ i > Len(tc)

RECURSIVE SumExprs(_, _, _)
SumExprs(f, n, nv) == IF n = 0 THEN ZeroExpr(nv) ELSE Plus(SumExprs(f, n - 1, nv), f[n])

\* The objective with the transaction costs left out.
build_objective_without_costs(ws, mp, tp, tc, nv) ==
    SumExprs([i \in 1..Len(ws) |-> Term(ws[i], tp[i] - mp[i], nv)], Len(ws), nv)

\* build_objective: sum over i of (theoretical - market - cost) * w_i.
build_objective(ws, mp, tp, tc, nv) ==
    SumExprs([i \in 1..Len(ws) |-> Term(ws[i], tp[i] - mp[i] - tc[i], nv)],
             Len(ws), nv)

\* The capital expression with the short parts left out.
compute_total_capital_constraint_long_only(wp, wm, mp, tc, nv) ==
    SumExprs([i \in 1..Len(wp) |-> Term(wp[i], mp[i] + tc[i], nv)], Len(wp), nv)

\* compute_total_capital_constraint: sum of w_p*(price+cost) plus sum of
\* w_m*(price+cost).
compute_total_capital_constraint(wp, wm, mp, tc, nv) ==
    Plus(SumExprs([i \in 1..Len(wp) |-> Term(wp[i], mp[i] + tc[i], nv)], Len(wp), nv),
         SumExprs([i \in 1..Len(wm) |-> Term(wm[i], mp[i] + tc[i], nv)], Len(wm), nv))

\* add_liquidity_constraints: w_p <= L_i then w_m <= L_i, for each i.
add_liquidity_constraints(wp, wm, liq, nv) ==
    [j \in 1..(2 * Len(wp)) |->
        LET i == (j + 1) \div 2
        IN Constraint("liquidity",
                      Term(IF j % 2 = 1 THEN wp[i] ELSE wm[i], 1, nv),
                      "<=", liq[i], 1)]

\* The per-state returns with each state's return scaled by the state's
\* number, as if the payoff of the instruments depended on the state.
portfolio_returns_by_state(num_states, ws, mp, tp, tc, nv) ==
    [s \in 1..num_states |->
        SumExprs([i \in 1..Len(ws) |-> Term(ws[i], s * (tp[i] - mp[i] - tc[i]), nv)],
                 Len(ws), nv)]

\* find_arbitrage lines 146-152: one return expression per state, each the sum
\* over i of w_i * (theoretical - market - cost).
portfolio_returns_of(num_states, ws, mp, tp, tc, nv) ==
    [s \in 1..num_states |->
        SumExprs([i \in 1..Len(ws) |-> Term(ws[i], tp[i] - mp[i] - tc[i], nv)],
                 Len(ws), nv)]

\* The dominance constraints with the benchmark side left unscaled.
add_stochastic_dominance_constraints_unscaled(prs, idx, rls) ==
    LET num_states == Len(prs)
    IN [j \in 1..(Len(rls) * num_states) |->
            LET rl == rls[((j - 1) \div num_states) + 1]
                s == ((j - 1) % num_states) + 1
            IN Constraint("dominance", Scale(prs[s], rl), ">=", idx[s], 1)]

\* The dominance constraints of the first risk level only.
add_stochastic_dominance_constraints_one_level(prs, idx, rls) ==
    LET num_states == Len(prs)
    IN [j \in 1..(Min(Len(rls), 1) * num_states) |->
            Constraint("dominance", Scale(prs[j], rls[1]), ">=", idx[j] * rls[1], 1)]

\* add_stochastic_dominance_constraints: for each risk level, for each state,
\* portfolio_returns[s] * risk_level >= index_returns[s] * risk_level.
add_stochastic_dominance_constraints(prs, idx, rls) ==
    LET num_states == Len(prs)
    IN [j \in 1..(Len(rls) * num_states) |->
            LET rl == rls[((j - 1) \div num_states) + 1]
                s == ((j - 1) % num_states) + 1
            IN Constraint("dominance", Scale(prs[s], rl), ">=", idx[s] * rl, 1)]

\* find_arbitrage lines 161-173: w_i*(price+cost) <= capital/num_options and
\* >= -capital/num_options, num_options being weights.len().
position_limit_constraints(ws, mp, tc, cap, nv) ==
    [j \in 1..(2 * Len(ws)) |->
        LET i == (j + 1) \div 2
        IN IF j % 2 = 1
           THEN Constraint("position_limit", Term(ws[i], mp[i] + tc[i], nv),
                           "<=", cap, Len(ws))
           ELSE Constraint("position_limit", Term(ws[i], mp[i] + tc[i], nv),
                           ">=", -cap, Len(ws))]

\* ---------------------------------------------------------------- backend
\* The solver behind good_lp's default_solver is an external crate.  It is
\* modelled by its contract on the linear program over real-valued
\* variables: Err(Infeasible) when no point within the variable bounds
\* satisfies every constraint, otherwise an optimal basic solution (a vertex
\* of the feasible region of largest objective value).  Points are exact
\* fractions: num[j] / den is the value of variable j.
AbsInt(x) == IF x < 0 THEN -x ELSE x

RECURSIVE GcdNat(_, _)
GcdNat(a, b) == IF b = 0 THEN a ELSE GcdNat(b, a % b)

\* gcd of |r[1]|, ..., |r[n]| (0 when all are 0).
RECURSIVE GcdSeq(_, _)
GcdSeq(r, n) == IF n = 0 THEN 0 ELSE GcdNat(GcdSeq(r, n - 1), AbsInt(r[n]))

\* The point num/den in lowest terms.
Point(num, den) ==
    LET g == GcdNat(GcdSeq(num, Len(num)), den)
    IN [num |-> [j \in DOMAIN num |-> num[j] \div g], den |-> den \div g]

\* The fraction n/d, d > 0, in lowest terms.
Frac(n, d) ==
    LET g == GcdNat(AbsInt(n), d)
    IN [num |-> n \div g, den |-> d \div g]

\* The value of variable j at the point x.
Value(x, j) == Frac(x.num[j], x.den)

\* No point: the value of a solution before solve() has returned one.
NoPoint == [num |-> <<>>, den |-> 1]

\* The point where every one of nv variables is 0.
Origin(nv) == [num |-> [v \in 1..nv |-> 0], den |-> 1]

\* x satisfies c: lhs(x) op num/den, den > 0, at the point x.
Satisfies(c, x) ==
    LET v == Dot(c.lhs, x.num) * c.den
    IN CASE c.op = "<=" -> v <= c.num * x.den
         [] c.op = ">=" -> v >= c.num * x.den
         [] c.op = "==" -> v = c.num * x.den

\* The problem over y = x - lo >= 0 as rows a.y <= b (or a.y == b when eq):
\* one row per upper bound, then one per constraint, each divided by the gcd
\* of its entries.  A variable a constraint does not mention has coefficient
\* 0 in it.
ProblemRows(bounds, cons) ==
    LET nv == Len(bounds)
        lo == [j \in 1..nv |-> bounds[j].lo]
        norm(a, b, eq) ==
            LET g == GcdNat(GcdSeq(a, nv), AbsInt(b))
            IN IF g = 0 THEN [a |-> a, b |-> b, eq |-> eq]
               ELSE [a |-> [j \in 1..nv |-> a[j] \div g], b |-> b \div g, eq |-> eq]
        boundRow(j) == norm([k \in 1..nv |-> IF k = j THEN 1 ELSE 0],
                            bounds[j].hi - bounds[j].lo, FALSE)
        consRow(c) ==
            LET a == [k \in 1..nv |-> IF k <= Len(c.lhs) THEN c.lhs[k] * c.den ELSE 0]
                b == c.num - Dot(a, lo)
            IN CASE c.op = "<=" -> norm(a, b, FALSE)
                 [] c.op = ">=" -> norm([k \in 1..nv |-> -a[k]], -b, FALSE)
                 [] c.op = "==" -> norm(a, b, TRUE)
    IN [i \in 1..(nv + Len(cons)) |->
           IF i <= nv THEN boundRow(i) ELSE consRow(cons[i - nv])]

\* A row without variables that no point satisfies.
Contradiction(row) ==
    /\ \A j \in DOMAIN row.a : row.a[j] = 0
    /\ IF row.eq THEN row.b # 0 ELSE row.b < 0

\* The rows that matter: those with a variable, each kept once.
RECURSIVE DistinctRows(_, _)
DistinctRows(rows, n) ==
    IF n = 0 THEN <<>>
    ELSE LET rest == DistinctRows(rows, n - 1)
         IN IF (\A j \in DOMAIN rows[n].a : rows[n].a[j] = 0)
               \/ (\E k \in 1..(n - 1) : rows[k] = rows[n])
            THEN rest
            ELSE Append(rest, rows[n])

\* Number of i <= n with flag[i].
RECURSIVE CountUpTo(_, _)
CountUpTo(flag, n) ==
    IF n = 0 THEN 0 ELSE CountUpTo(flag, n - 1) + (IF flag[n] THEN 1 ELSE 0)

\* The simplex tableau of the rows, every entry an integer over the common
\* denominator den: columns 1..nv are the variables, then one slack per
\* inequality, then one artificial variable per equality and per row with a
\* negative right-hand side; the last column is the right-hand side.  The
\* objective row drives the artificial variables to zero (phase one).
InitialTableau(rows, nv) ==
    LET m == Len(rows)
        hasSlack == [i \in 1..m |-> ~rows[i].eq]
        needsArt == [i \in 1..m |-> rows[i].eq \/ rows[i].b < 0]
        sgn == [i \in 1..m |-> IF rows[i].b < 0 THEN -1 ELSE 1]
        nSlack == CountUpTo(hasSlack, m)
        nArt == CountUpTo(needsArt, m)
        slackCol == [i \in 1..m |-> nv + CountUpTo(hasSlack, i)]
        artCol == [i \in 1..m |-> nv + nSlack + CountUpTo(needsArt, i)]
        ncols == nv + nSlack + nArt
        body == SubSeq([i \in 1..m |-> SubSeq([j \in 1..(ncols + 1) |->
                    IF j <= nv THEN sgn[i] * rows[i].a[j]
                    ELSE IF j = ncols + 1 THEN sgn[i] * rows[i].b
                    ELSE IF hasSlack[i] /\ j = slackCol[i] THEN sgn[i]
                    ELSE IF needsArt[i] /\ j = artCol[i] THEN 1
                    ELSE 0], 1, ncols + 1)], 1, m)
        artRows == {i \in 1..m : needsArt[i]}
        colSum(j, i) == IF i \in artRows THEN body[i][j] ELSE 0
    IN [rows |-> body,
        basis |-> SubSeq([i \in 1..m |-> IF needsArt[i] THEN artCol[i] ELSE slackCol[i]], 1, m),
        obj |-> SubSeq([j \in 1..(ncols + 1) |->
                    IF j > nv + nSlack /\ j <= ncols THEN 0
                    ELSE -SumSeq([i \in 1..m |-> colSum(j, i)], m)], 1, ncols + 1),
        den |-> 1,
        free |-> nv + nSlack]

\* Pivot on row r, column c (a positive entry): column c becomes basic in
\* row r.  Integer pivoting: the new common denominator is the pivot entry.
Pivot(T, r, c) ==
    LET p == T.rows[r][c]
        n == Len(T.obj)
        pr == T.rows[r]
        upd(row) == SubSeq([j \in 1..n |-> (p * row[j] - row[c] * pr[j]) \div T.den], 1, n)
    IN [rows |-> SubSeq([i \in DOMAIN T.rows |-> IF i = r THEN pr ELSE upd(T.rows[i])], 1, Len(T.rows)),
        basis |-> [T.basis EXCEPT ![r] = c],
        obj |-> upd(T.obj),
        den |-> p,
        free |-> T.free]

\* The rows where column c can enter at the smallest ratio.
LeavingRows(T, c) ==
    LET rhs == Len(T.obj)
        cand == {i \in DOMAIN T.rows : T.rows[i][c] > 0}
    IN {r \in cand : \A s \in cand :
            T.rows[r][rhs] * T.rows[s][c] <= T.rows[s][rhs] * T.rows[r][c]}

\* Simplex iterations with Bland's rule until no column improves the
\* objective.  The variables are bounded, so a leaving row always exists.
RECURSIVE Simplex(_)
Simplex(T) ==
    LET entering == {j \in 1..T.free : T.obj[j] < 0}
    IN IF entering = {} THEN T
       ELSE LET c == CHOOSE j \in entering : \A k \in entering : j <= k
                rs == LeavingRows(T, c)
                r == CHOOSE i \in rs : \A k \in rs : T.basis[i] <= T.basis[k]
            IN Simplex(Pivot(T, r, c))

\* After phase one: an artificial variable still basic (at zero) leaves the
\* basis for any variable of its row; a row without one is redundant.
RECURSIVE DriveOut(_, _)
DriveOut(T, i) ==
    IF i = 0 THEN T
    ELSE LET T1 == DriveOut(T, i - 1)
             cols == {j \in 1..T1.free : T1.rows[i][j] # 0}
         IN IF T1.basis[i] <= T1.free \/ cols = {} THEN T1
            ELSE LET c == CHOOSE j \in cols : \A k \in cols : j <= k
                     flip == IF T1.rows[i][c] < 0
                             THEN [T1 EXCEPT !.rows[i] = [j \in DOMAIN @ |-> -@[j]]]
                             ELSE T1
                 IN Pivot(flip, i, c)

\* The tableau of phase two: the objective row is that of maximising obj over
\* the variables, written in the current basis.
PhaseTwo(T, obj) ==
    LET ncols1 == Len(T.obj)
        nv == Len(obj)
        o == SubSeq(obj, 1, nv)
        cost(j) == IF j <= nv THEN o[j] ELSE 0
        row0 == SubSeq([j \in 1..ncols1 |->
                    (IF j <= nv THEN -(T.den * o[j]) ELSE 0)
                    + SumSeq([i \in DOMAIN T.rows |->
                                 cost(T.basis[i]) * T.rows[i][j]],
                             Len(T.rows))], 1, ncols1)
    IN [T EXCEPT !.obj = row0]

\* The point of a tableau: basic variables at rhs/den, the others at 0, moved
\* back by the lower bounds.
PointOf(T, bounds) ==
    LET rhs == Len(T.obj)
        val(j) == LET rs == {i \in DOMAIN T.rows : T.basis[i] = j}
                  IN IF rs = {} THEN 0 ELSE T.rows[CHOOSE i \in rs : TRUE][rhs]
    IN Point([j \in 1..Len(bounds) |-> bounds[j].lo * T.den + val(j)], T.den)

\* The columns of a tableau that are basic.
BasisOf(T) == {T.basis[i] : i \in DOMAIN T.rows}

\* The pivots of T that keep the objective value: a non-basic column c of
\* reduced cost zero enters, any row r of smallest ratio leaves; basis is the
\* set of basic columns after the pivot.
Neighbours(T) ==
    UNION {{[r |-> r, c |-> c, basis |-> (BasisOf(T) \ {T.basis[r]}) \cup {c}] :
               r \in LeavingRows(T, c)} :
              c \in {j \in 1..T.free : T.obj[j] = 0 /\ j \notin BasisOf(T)}}

\* The points of every optimal basis reachable from the tableaux in frontier,
\* breadth first; seen holds the bases already met, acc the points already
\* found.
RECURSIVE OptimalFace(_, _, _, _)
OptimalFace(frontier, seen, acc, bounds) ==
    IF frontier = {} THEN acc
    ELSE LET steps == UNION {{[from |-> T.basis, r |-> N.r, c |-> N.c, basis |-> N.basis] :
                                 N \in Neighbours(T)} : T \in frontier}
             newBases == {N.basis : N \in steps} \ seen
             next == {LET N == CHOOSE N \in steps : N.basis = b
                          T == CHOOSE T \in frontier : T.basis = N.from
                      IN Pivot(T, N.r, N.c) : b \in newBases}
         IN OptimalFace(next, seen \cup newBases,
                        acc \cup {PointOf(T, bounds) : T \in frontier}, bounds)

\* Phase one of the solve: whether a point within the bounds satisfies every
\* constraint, and a tableau at such a point.
PhaseOne(bounds, cons) ==
    LET rows0 == ProblemRows(bounds, cons)
    IN IF \E i \in DOMAIN rows0 : Contradiction(rows0[i])
       THEN [ok |-> FALSE, T |-> <<>>]
       ELSE LET T1 == Simplex(InitialTableau(DistinctRows(rows0, Len(rows0)), Len(bounds)))
            IN IF T1.obj[Len(T1.obj)] < 0
               THEN [ok |-> FALSE, T |-> <<>>]
               ELSE [ok |-> TRUE, T |-> DriveOut(T1, Len(T1.rows))]

\* The problem has a feasible point.
Feasible(bounds, cons) == PhaseOne(bounds, cons).ok

\* problem.solve() on maximise obj: the optimal basic solutions, none when
\* the problem is infeasible.
OptimalPoints(bounds, obj, cons) ==
    LET ph == PhaseOne(bounds, cons)
    IN IF ~ph.ok THEN {}
       ELSE LET T2 == Simplex(PhaseTwo(ph.T, obj))
            IN OptimalFace({T2}, {BasisOf(T2)}, {}, bounds)

\* The largest value of obj over the feasible points of a feasible problem,
\* as a fraction.
OptimalValue(bounds, obj, cons) ==
    LET T2 == Simplex(PhaseTwo(PhaseOne(bounds, cons).T, obj))
        lo == [j \in 1..Len(bounds) |-> bounds[j].lo]
    IN Frac(T2.obj[Len(T2.obj)] + Dot(obj, lo) * T2.den, T2.den)

\* x lies within the bounds and satisfies every constraint.
WithinProblem(bounds, cons, x) ==
    /\ \A j \in 1..Len(bounds) :
          bounds[j].lo * x.den <= x.num[j] /\ x.num[j] <= bounds[j].hi * x.den
    /\ \A c \in 1..Len(cons) : Satisfies(cons[c], x)

\* ------------------------------------------------------------------ state
VARIABLES
    pc,                   \* the line construct_portfolio / find_arbitrage is at
    option_data,          \* construct_portfolio's arguments
    capital,
    risk_levels,
    index_returns,
    transaction_costs,
    liquidity,
    market_prices,        \* construct_portfolio line 489
    vars,                 \* ProblemVariables: the bounds of each variable
    weights,              \* ids of the net-position variables
    w_plus,               \* ids of the long parts
    w_minus,              \* ids of the short parts
    equality_constraints, \* returned by initialize_weights
    theoretical_prices,
    objective,
    constraints,          \* the constraints added to the problem, in order
    solves,               \* how many times problem.solve() ran
    solution,             \* the assignment solve() returned
    holdings,             \* Portfolio.holdings
    failure               \* the panic that ended the call, "none" otherwise

inputs == <<option_data, capital, risk_levels, index_returns, transaction_costs,
            liquidity>>
problem == <<vars, weights, w_plus, w_minus, equality_constraints,
             theoretical_prices, objective, constraints>>

\* The state of the crate's other entry points.  A specification runs one
\* entry point; the state of the others stays idle.
VARIABLES
    bs_args,              \* pricing/bs: the arguments (s, k, t, r, sigma)
    bs_call,              \* the value black_scholes_call returned
    bs_put,               \* the value black_scholes_put returned
    o_pc,                 \* opre_risk_arbitrage::find_arbitrage: the line it is at
    o_request,            \* its arguments
    o_vars,               \* ProblemVariables: the bounds of each variable
    alpha,                \* ids of the buy variables
    beta,                 \* ids of the sell variables
    net_investment,       \* the objective expression
    expenditure,
    o_constraints,        \* the constraints added to the problem, in order
    o_solves,             \* how many times problem.solve() ran
    o_solution,           \* what problem.solve() returned
    o_result,             \* what find_arbitrage returned
    candles,              \* grid/dynamic and ta: the Ohlc slice
    grid_params,          \* GridParams
    atr_values,           \* what atr(candles, atr_len) returned
    grid_levels,          \* what generate_grid_levels returned
    pending,              \* a batch of requests: those not yet run
    results,              \* the outcome of each request of the batch already run
    ma_strategy,          \* trend/ema_cross: MovingAverageCrossover
    market_data,          \* the slice passed to analyze
    signal,               \* the Signal analyze returned
    perps_args,           \* strato-ddhp: the arguments of get_perps_needed
    perps_result,         \* the tuple it returned
    voi_history,          \* hft/hft_oir: TradingState
    oir_history,
    mpb_history,
    hft_calls,            \* calls of parametrized_linear_model so far
    hft_k,                \* the window size of the last call
    hft_signal            \* what the last call returned

\* An f64 result: a number, NaN, or not computed (state "unpriced" / "idle").
Float(state, value) == [state |-> state, value |-> value]

arb_vars == <<pc, inputs, market_prices, problem, solves, solution, holdings, failure>>
pricing_vars == <<bs_args, bs_call, bs_put>>
opre_vars == <<o_pc, o_request, o_vars, alpha, beta, net_investment, expenditure,
               o_constraints, o_solves, o_solution, o_result>>
indicator_vars == <<candles, grid_params, atr_values, grid_levels>>
batch_vars == <<pending, results>>
crossover_vars == <<ma_strategy, market_data, signal>>
hedge_vars == <<perps_args, perps_result>>
hft_vars == <<voi_history, oir_history, mpb_history, hft_calls, hft_k, hft_signal>>

PricingIdle ==
    /\ bs_args = [s |-> 0, k |-> 0, t |-> 0, r |-> 0, sigma |-> 0]
    /\ bs_call = Float("idle", 0)
    /\ bs_put = Float("idle", 0)

OpreIdle ==
    /\ o_pc = "idle" /\ o_request = <<>> /\ o_vars = <<>>
    /\ alpha = <<>> /\ beta = <<>> /\ net_investment = <<>> /\ expenditure = <<>>
    /\ o_constraints = <<>> /\ o_solves = 0 /\ o_solution = <<>> /\ o_result = <<>>

IndicatorsIdle ==
    /\ candles = <<>> /\ grid_params = <<>> /\ atr_values = <<>> /\ grid_levels = <<>>

BatchIdle == pending = <<>> /\ results = <<>>

CrossoverIdle == ma_strategy = <<>> /\ market_data = <<>> /\ signal = "idle"

HedgeIdle == perps_args = <<>> /\ perps_result = <<>>

HftIdle ==
    /\ voi_history = <<>> /\ oir_history = <<>> /\ mpb_history = <<>>
    /\ hft_calls = 0 /\ hft_k = 0 /\ hft_signal = 0

\* What each entry point leaves alone.
other_vars == <<crossover_vars, hedge_vars, hft_vars>>
elsewhere == <<pricing_vars, opre_vars, indicator_vars, batch_vars, other_vars>>
pricing_rest == <<arb_vars, opre_vars, indicator_vars, batch_vars, other_vars>>
opre_rest == <<arb_vars, pricing_vars, indicator_vars, batch_vars, other_vars>>
indicator_rest == <<arb_vars, pricing_vars, opre_vars, batch_vars, other_vars>>
crossover_rest == <<arb_vars, pricing_vars, opre_vars, indicator_vars, batch_vars,
                    hedge_vars, hft_vars>>
hedge_rest == <<arb_vars, pricing_vars, opre_vars, indicator_vars, batch_vars,
                crossover_vars, hft_vars>>
hft_rest == <<arb_vars, pricing_vars, opre_vars, indicator_vars, batch_vars,
              crossover_vars, hedge_vars>>
OthersIdle == CrossoverIdle /\ HedgeIdle /\ HftIdle
ElsewhereIdle == PricingIdle /\ OpreIdle /\ IndicatorsIdle /\ BatchIdle /\ OthersIdle

vars_all == <<pc, inputs, market_prices, problem, solves, solution, holdings, failure,
              elsewhere>>

\* ------------------------------------------------------------- input sets
\* All sequences over S of length lo..hi.
SeqsOf(S, lo, hi) == UNION {[1..n -> S] : n \in lo..hi}

\* Instrument names, by position in the request (not in sorted order).
NamePool == <<"Option2", "Option1", "Option4", "Option3">>

Option(type, s, k, t, sigma, price) ==
    [name |-> "", s |-> s, k |-> k, t |-> t, r |-> 0, sigma |-> sigma,
     option_type |-> type, market_price |-> price]

\* Well-formed instruments at expiry (strike 2): theoretical prices 0, 1, 2.
RegularOptions ==
    {Option(ty, s, 2, 0, 0, p) : ty \in {"call", "put"}, s \in {1, 4}, p \in {1, 2}}

\* Instruments on the edges of the pricing inputs: s = 0, k = 0, sigma < 0,
\* and one with t > 0 that goes through the closed form.
BoundaryOptions ==
    {Option("put", 0, 2, 0, 0, 1), Option("call", 4, 0, 0, 0, 1),
     Option("call", 4, 2, 0, -1, 1), Option("call", 4, 2, 1, 0, 1)}

Named(f) == [i \in DOMAIN f |-> [f[i] EXCEPT !.name = NamePool[i]]]

OptionLists(S, n) == {Named(f) : f \in [1..n -> {o \in S : PriceIsNumber(o)}]}

Request(od, cap, rls, idx, tc, liq) ==
    [option_data |-> od, capital |-> cap, risk_levels |-> rls,
     index_returns |-> idx, transaction_costs |-> tc, liquidity |-> liq]

\* Liquidity limits a request may carry.
LiquidityVals == {1, 2}

\* The lists of n values of S in non-decreasing order.
Ascending(S, n) == {f \in [1..n -> S] : \A i \in 1..(n - 1) : f[i] <= f[i + 1]}

\* Requests of one or two instruments that keep the input contract (lists of
\* length n) and vary the instruments, costs, liquidity limits and capital.
\* The instruments come in every order, the costs and the limits in
\* non-decreasing order.
ValueRequests ==
    UNION {
        {Request(od, cap, <<1>>, <<0>>, tc, liq) :
            od \in OptionLists(RegularOptions \cup BoundaryOptions, n),
            cap \in {4, 12},
            tc \in Ascending({0, 1}, n),
            liq \in Ascending(LiquidityVals, n)} : n \in 1..Min(MaxAssets, 2)}

\* Requests of up to MaxAssets instruments, each instrument either underpriced
\* (theoretical 2, market 1), overpriced (0 against 1) or fairly priced (1
\* against 1).
SignalOptions ==
    {Option("call", 4, 2, 0, 0, 1), Option("put", 4, 2, 0, 0, 1),
     Option("put", 1, 2, 0, 0, 1)}

LargeRequests ==
    UNION {
        {Request(od, 12, <<1>>, <<0>>, [i \in 1..n |-> tc], [i \in 1..n |-> 2]) :
            od \in OptionLists(SignalOptions, n),
            tc \in {0, 1}} : n \in 1..MaxAssets}

\* Requests of one or two instruments that vary the benchmark payoffs and the
\* risk levels.
DominanceRequests ==
    UNION {
        {Request(od, 12, rls, idx, [i \in 1..n |-> 0], [i \in 1..n |-> 2]) :
            od \in OptionLists({Option("call", 4, 2, 0, 0, 1),
                                Option("put", 4, 2, 0, 0, 1)}, n),
            rls \in UNION {Ascending({1, 2}, k) : k \in 0..MaxRiskLevels},
            idx \in SeqsOf({-1, 2, 5}, 0, MaxStates)} : n \in 1..Min(MaxAssets, 2)}

\* Requests whose cost and liquidity lists need not have n entries (theoretical
\* price 3 or 0 against a market price of 1 and a cost of 1).
DimensionRequests ==
    UNION {
        {Request(od, cap, <<1>>, idx, tc, liq) :
            od \in OptionLists({Option("call", 5, 2, 0, 0, 1),
                                Option("put", 5, 2, 0, 0, 1)}, n),
            cap \in {4, 12},
            idx \in {<<>>, <<0>>},
            tc \in SeqsOf({1}, 0, MaxAssets + 1),
            liq \in UNION {Ascending(LiquidityVals, k) : k \in 0..(MaxAssets + 1)}} :
        n \in 1..MaxAssets}

Requests == ValueRequests \cup LargeRequests \cup DominanceRequests \cup DimensionRequests

\* ----------------------------------------------------------------- actions
Init ==
    /\ \E rq \in Requests :
        /\ option_data = rq.option_data
        /\ capital = rq.capital
        /\ risk_levels = rq.risk_levels
        /\ index_returns = rq.index_returns
        /\ transaction_costs = rq.transaction_costs
        /\ liquidity = rq.liquidity
    /\ pc = "construct_portfolio"
    /\ market_prices = <<>>
    /\ vars = <<>>
    /\ weights = <<>>
    /\ w_plus = <<>>
    /\ w_minus = <<>>
    /\ equality_constraints = <<>>
    /\ theoretical_prices = <<>>
    /\ objective = <<>>
    /\ constraints = <<>>
    /\ solves = 0
    /\ solution = NoPoint
    /\ holdings = <<>>
    /\ failure = "none"
    /\ ElsewhereIdle

\* No portfolio-construction request is running.
ArbIdle ==
    /\ pc = "idle"
    /\ option_data = <<>> /\ capital = 0 /\ risk_levels = <<>>
    /\ index_returns = <<>> /\ transaction_costs = <<>> /\ liquidity = <<>>
    /\ market_prices = <<>> /\ vars = <<>> /\ weights = <<>>
    /\ w_plus = <<>> /\ w_minus = <<>> /\ equality_constraints = <<>>
    /\ theoretical_prices = <<>> /\ objective = <<>> /\ constraints = <<>>
    /\ solves = 0 /\ solution = NoPoint /\ holdings = <<>> /\ failure = "none"

\* construct_portfolio lines 489-504: collect the market prices and call
\* find_arbitrage (expected_payoffs is computed and never read).
ConstructPortfolio ==
    /\ pc = "construct_portfolio"
    /\ market_prices' = [i \in 1..Len(option_data) |-> option_data[i].market_price]
    /\ pc' = "initialize_weights"
    /\ UNCHANGED <<elsewhere, inputs, problem, solves, solution, holdings, failure>>

\* find_arbitrage lines 105-112.
InitializeWeights ==
    /\ pc = "initialize_weights"
    /\ LET iw == initialize_weights(Len(market_prices), liquidity)
       IN /\ vars' = iw.vars
          /\ weights' = iw.weights
          /\ w_plus' = iw.w_plus
          /\ w_minus' = iw.w_minus
          /\ equality_constraints' = iw.constraints
    /\ pc' = "compute_theoretical_prices"
    /\ UNCHANGED <<elsewhere, inputs, market_prices, theoretical_prices, objective, constraints,
                   solves, solution, holdings, failure>>

\* find_arbitrage line 115.
ComputeTheoreticalPrices ==
    /\ pc = "compute_theoretical_prices"
    /\ theoretical_prices' = compute_theoretical_prices(option_data)
    /\ pc' = "build_objective"
    /\ UNCHANGED <<elsewhere, inputs, market_prices, vars, weights, w_plus, w_minus,
                   equality_constraints, objective, constraints, solves, solution,
                   holdings, failure>>

\* find_arbitrage lines 118-126 with the problem kept from the previous call:
\* the constraints already in it stay.
BuildObjectiveOnSharedProblem ==
    /\ pc = "build_objective"
    /\ IF IndexOutOfBounds(weights, market_prices, theoretical_prices, transaction_costs)
       THEN /\ pc' = "panicked"
            /\ failure' = "index out of bounds"
            /\ UNCHANGED objective
       ELSE /\ objective' = build_objective(weights, market_prices, theoretical_prices,
                                            transaction_costs, Len(vars))
            /\ pc' = "add_equality_constraints"
            /\ UNCHANGED failure
    /\ UNCHANGED <<elsewhere, inputs, market_prices, vars, weights, w_plus, w_minus,
                   equality_constraints, theoretical_prices, constraints, solves,
                   solution, holdings>>

\* find_arbitrage lines 118-126: the objective, and a new problem (no
\* constraint yet) that maximises it; indexing a short transaction_costs
\* panics here, before the problem exists.
BuildObjective ==
    /\ pc = "build_objective"
    /\ IF IndexOutOfBounds(weights, market_prices, theoretical_prices, transaction_costs)
       THEN /\ pc' = "panicked"
            /\ failure' = "index out of bounds"
            /\ UNCHANGED <<objective, constraints>>
       ELSE /\ objective' = build_objective(weights, market_prices, theoretical_prices,
                                            transaction_costs, Len(vars))
            /\ constraints' = <<>>
            /\ pc' = "add_equality_constraints"
            /\ UNCHANGED failure
    /\ UNCHANGED <<elsewhere, inputs, market_prices, vars, weights, w_plus, w_minus,
                   equality_constraints, theoretical_prices, solves,
                   solution, holdings>>

\* find_arbitrage lines 129-131.
AddEqualityConstraints ==
    /\ pc = "add_equality_constraints"
    /\ constraints' = constraints \o equality_constraints
    /\ pc' = "add_capital_constraint"
    /\ UNCHANGED <<elsewhere, inputs, market_prices, vars, weights, w_plus, w_minus,
                   equality_constraints, theoretical_prices, objective, solves,
                   solution, holdings, failure>>

\* find_arbitrage lines 134-140.
AddCapitalConstraint ==
    /\ pc = "add_capital_constraint"
    /\ constraints' = Append(constraints,
            Constraint("capital",
                       compute_total_capital_constraint(w_plus, w_minus, market_prices,
                                                        transaction_costs, Len(vars)),
                       "<=", capital, 1))
    /\ pc' = "add_liquidity_constraints"
    /\ UNCHANGED <<elsewhere, inputs, market_prices, vars, weights, w_plus, w_minus,
                   equality_constraints, theoretical_prices, objective, solves,
                   solution, holdings, failure>>

\* find_arbitrage line 143.
AddLiquidityConstraints ==
    /\ pc = "add_liquidity_constraints"
    /\ constraints' = constraints \o
            add_liquidity_constraints(w_plus, w_minus, liquidity, Len(vars))
    /\ pc' = "add_stochastic_dominance_constraints"
    /\ UNCHANGED <<elsewhere, inputs, market_prices, vars, weights, w_plus, w_minus,
                   equality_constraints, theoretical_prices, objective, solves,
                   solution, holdings, failure>>

\* find_arbitrage lines 146-159.
AddStochasticDominanceConstraints ==
    /\ pc = "add_stochastic_dominance_constraints"
    /\ constraints' = constraints \o
            add_stochastic_dominance_constraints(
                portfolio_returns_of(Len(index_returns), weights, market_prices,
                                     theoretical_prices, transaction_costs, Len(vars)),
                index_returns, risk_levels)
    /\ pc' = "add_position_limits"
    /\ UNCHANGED <<elsewhere, inputs, market_prices, vars, weights, w_plus, w_minus,
                   equality_constraints, theoretical_prices, objective, solves,
                   solution, holdings, failure>>

\* find_arbitrage lines 162-173.
AddPositionLimits ==
    /\ pc = "add_position_limits"
    /\ constraints' = constraints \o
            position_limit_constraints(weights, market_prices, transaction_costs,
                                       capital, Len(vars))
    /\ pc' = "solve"
    /\ UNCHANGED <<elsewhere, inputs, market_prices, vars, weights, w_plus, w_minus,
                   equality_constraints, theoretical_prices, objective, solves,
                   solution, holdings, failure>>

\* problem.solve() followed by a second solve with the dominance constraints
\* dropped when the first one reports Infeasible.
SolveWithRetry ==
    /\ pc = "solve"
    /\ solves' = solves + 1
    /\ LET best == OptimalPoints(vars, objective, constraints)
       IN IF best = {} /\ solves = 0
          THEN /\ constraints' = SelectSeq(constraints, LAMBDA c : c.kind # "dominance")
               /\ pc' = "solve"
               /\ UNCHANGED <<solution, failure>>
          ELSE IF best = {}
          THEN /\ pc' = "panicked"
               /\ failure' = "unwrap on Err(Infeasible)"
               /\ UNCHANGED <<solution, constraints>>
          ELSE /\ solution' \in best
               /\ pc' = "assemble"
               /\ UNCHANGED <<failure, constraints>>
    /\ UNCHANGED <<elsewhere, inputs, market_prices, vars, weights, w_plus, w_minus,
                   equality_constraints, theoretical_prices, objective, holdings>>

\* find_arbitrage line 176, problem.solve().unwrap(): an optimal point, or the
\* panic of unwrap() on Err(Infeasible).
Solve ==
    /\ pc = "solve"
    /\ solves' = solves + 1
    /\ LET best == OptimalPoints(vars, objective, constraints)
       IN IF best = {}
          THEN /\ pc' = "panicked"
               /\ failure' = "unwrap on Err(Infeasible)"
               /\ UNCHANGED solution
          ELSE /\ solution' \in best
               /\ pc' = "assemble"
               /\ UNCHANGED failure
    /\ UNCHANGED <<elsewhere, inputs, market_prices, problem, holdings>>

\* find_arbitrage line 179: the values of the net-position variables.
portfolio_weights_of(ws, sol) == [i \in 1..Len(ws) |-> Value(sol, ws[i])]

\* construct_portfolio lines 515-519: option_data zipped with the weights.
zip_holdings(options, pw) ==
    [i \in 1..Min(Len(options), Len(pw)) |->
        [name |-> options[i].name, position |-> pw[i]]]

\* find_arbitrage line 179 and construct_portfolio lines 515-521.
AssemblePortfolio ==
    /\ pc = "assemble"
    /\ holdings' = zip_holdings(option_data, portfolio_weights_of(weights, solution))
    /\ pc' = "returned"
    /\ UNCHANGED <<elsewhere, inputs, market_prices, problem, solves, solution, failure>>

Next ==
    \/ ConstructPortfolio
    \/ InitializeWeights
    \/ ComputeTheoreticalPrices
    \/ BuildObjective
    \/ AddEqualityConstraints
    \/ AddCapitalConstraint
    \/ AddLiquidityConstraints
    \/ AddStochasticDominanceConstraints
    \/ AddPositionLimits
    \/ Solve
    \/ AssemblePortfolio

Spec == Init /\ [][Next]_vars_all

\* ============================================================== properties
\* find_arbitrage accepted a solution: solve() returned Ok and unwrap() passed.
Accepted == pc \in {"assemble", "returned"}

\* The parts of the accepted solution, per net-position variable, as
\* numerators over the common denominator SolDen.
SolDen == solution.den
Net(i) == solution.num[weights[i]]
Long(i) == solution.num[w_plus[i]]
Short(i) == solution.num[w_minus[i]]

\* Per-unit outlay and per-unit profit of instrument i, from the request.
UnitCost(i) == option_data[i].market_price + transaction_costs[i]
UnitProfit(i) == theoretical_prices[i] - option_data[i].market_price - transaction_costs[i]

\* The request keeps the input contract: one cost and one limit per instrument.
ListsMatch ==
    /\ Len(transaction_costs) = Len(option_data)
    /\ Len(liquidity) = Len(option_data)

\* ---------------------------------------------------------------------- C1
\* C1: whenever construct_portfolio returns a Portfolio, holdings has one entry
\* per input instrument, in input order, entry i named after instrument i.
C1_HoldingsOnePerInstrument ==
    pc = "returned" =>
        /\ Len(holdings) = Len(option_data)
        /\ \A i \in 1..Len(option_data) : holdings[i].name = option_data[i].name

\* The same statement for the requests whose lists have one entry per
\* instrument; it also pins each position to the solved net value.
C1_HoldsWhenListsMatch ==
    (pc = "returned" /\ ListsMatch) =>
        /\ Len(holdings) = Len(option_data)
        /\ \A i \in 1..Len(option_data) :
              /\ holdings[i].name = option_data[i].name
              /\ holdings[i].position = Frac(Net(i), SolDen)

\* ---------------------------------------------------------------------- C2
\* The gross exposure of the accepted solution, as a numerator over SolDen.
GrossExposure ==
    SumSeq([i \in 1..Len(weights) |-> (Long(i) + Short(i)) * UnitCost(i)], Len(weights))

\* C2: every accepted solution keeps the gross exposure within the capital:
\* the sum over the instruments of (long + short) * (market price + cost) is at
\* most capital.
C2_CapitalOnGrossExposure == Accepted => GrossExposure <= capital * SolDen

\* A returned portfolio in which a long and a short part cancel to a net of 0
\* and still use up the whole capital.
C2_Witness ==
    /\ pc = "returned"
    /\ GrossExposure = capital * SolDen
    /\ \E i \in 1..Len(weights) : Long(i) > 0 /\ Short(i) = Long(i) /\ Net(i) = 0

\* ---------------------------------------------------------------------- C3
\* The equality constraints are in the problem (lines 129-131 have run).
EqualityAdded ==
    \/ pc \in {"add_capital_constraint", "add_liquidity_constraints",
               "add_stochastic_dominance_constraints", "add_position_limits",
               "solve", "assemble", "returned"}
    \/ pc = "panicked" /\ solves > 0

EqualityFor(i) ==
    {j \in DOMAIN constraints :
        /\ constraints[j].kind = "equality"
        /\ constraints[j].lhs = [v \in 1..Len(vars) |->
                IF v = weights[i] THEN 1
                ELSE IF v = w_plus[i] THEN -1
                ELSE IF v = w_minus[i] THEN 1 ELSE 0]
        /\ constraints[j].op = "==" /\ constraints[j].num = 0}

\* C3: for every instrument of the request exactly one constraint
\* net = long - short is in the problem, and every accepted solution satisfies
\* it with long >= 0 and short >= 0.
C3_OneEqualityPerInstrument ==
    /\ EqualityAdded =>
          \A i \in 1..Len(option_data) :
              i <= Len(weights) /\ Cardinality(EqualityFor(i)) = 1
    /\ Accepted =>
          \A i \in 1..Len(option_data) :
              /\ i <= Len(weights)
              /\ Net(i) = Long(i) - Short(i) /\ Long(i) >= 0 /\ Short(i) >= 0

\* The same statement over the position triples the problem has (there are
\* min(n, len(liquidity)) of them).
C3_HoldsPerPositionVariable ==
    /\ EqualityAdded =>
          /\ Cardinality({j \in DOMAIN constraints : constraints[j].kind = "equality"})
                = Len(weights)
          /\ \A i \in 1..Len(weights) : Cardinality(EqualityFor(i)) = 1
    /\ Accepted =>
          \A i \in 1..Len(weights) :
              Net(i) = Long(i) - Short(i) /\ Long(i) >= 0 /\ Short(i) >= 0
    /\ Len(weights) = Min(Len(market_prices), Len(liquidity)) \/ pc \in
          {"construct_portfolio", "initialize_weights"}

\* ---------------------------------------------------------------------- C4
\* C4: in every accepted solution each net position lies in
\* [-liquidity_i, liquidity_i] and each long and short part in [0, liquidity_i];
\* so does every position of the returned portfolio.
C4_PositionsWithinLiquidity ==
    /\ Accepted =>
          \A i \in 1..Len(weights) :
              /\ -liquidity[i] * SolDen <= Net(i) /\ Net(i) <= liquidity[i] * SolDen
              /\ 0 <= Long(i) /\ Long(i) <= liquidity[i] * SolDen
              /\ 0 <= Short(i) /\ Short(i) <= liquidity[i] * SolDen
    /\ pc = "returned" =>
          \A i \in DOMAIN holdings :
              /\ -liquidity[i] * holdings[i].position.den <= holdings[i].position.num
              /\ holdings[i].position.num <= liquidity[i] * holdings[i].position.den

\* A returned portfolio whose position is not a whole number: a third of the
\* capital buys 4/3 of an instrument that costs 3 a unit.
C4_WitnessFractional ==
    /\ pc = "returned"
    /\ \E i \in DOMAIN holdings :
          holdings[i].position.den = 3 /\ holdings[i].position.num \in {-4, 4}

\* A returned portfolio of two instruments, one long and one short, each at its
\* liquidity limit.
C4_Witness ==
    /\ pc = "returned"
    /\ Len(holdings) = 2
    /\ holdings[1].position = Frac(liquidity[1], 1)
    /\ holdings[2].position = Frac(-liquidity[2], 1)
    /\ Long(1) = liquidity[1] * SolDen /\ Short(2) = liquidity[2] * SolDen

\* ---------------------------------------------------------------------- C5
\* The portfolio return of the accepted solution: sum of net_i times
\* (theoretical - market - cost), as a numerator over SolDen; it is the same
\* in every state.
PortfolioReturn ==
    SumSeq([i \in 1..Len(weights) |-> Net(i) * UnitProfit(i)], Len(weights))

\* C5: every accepted solution has, for every risk level and every state,
\* portfolio return * risk level >= benchmark payoff of the state * risk level.
C5_DominatesBenchmark ==
    Accepted =>
        \A l \in 1..Len(risk_levels) : \A s \in 1..Len(index_returns) :
            PortfolioReturn * risk_levels[l] >= index_returns[s] * risk_levels[l] * SolDen

\* A returned portfolio that meets a positive benchmark exactly, under two
\* risk levels and two states.
C5_Witness ==
    /\ pc = "returned"
    /\ Len(risk_levels) = 2 /\ Len(index_returns) = 2
    /\ \E s \in 1..2 : index_returns[s] > 0 /\ PortfolioReturn = index_returns[s] * SolDen

\* ---------------------------------------------------------------------- C6
\* The dominance constraints are in the problem (line 154 has run).
DominanceAdded ==
    \/ pc \in {"add_position_limits", "solve", "assemble", "returned"}
    \/ pc = "panicked" /\ solves > 0

\* C6: the problem holds exactly |risk_levels| * |index_returns| dominance
\* constraints, whatever the number of instruments.
C6_DominanceConstraintCount ==
    DominanceAdded =>
        Cardinality({j \in DOMAIN constraints : constraints[j].kind = "dominance"})
            = Len(risk_levels) * Len(index_returns)

\* A solved request with more states than instruments and two risk levels.
C6_Witness ==
    /\ pc = "returned"
    /\ Len(index_returns) > Len(option_data)
    /\ Len(risk_levels) = 2
    /\ Cardinality({j \in DOMAIN constraints : constraints[j].kind = "dominance"}) = 4

\* Fewer states than instruments, and as many.
C6_WitnessFewerStates ==
    /\ pc = "returned"
    /\ Len(index_returns) = 1 /\ Len(option_data) = 2 /\ Len(risk_levels) = 2

\* --------------------------------------------------------------------- C26
\* Every risk level of the request is positive.
PositiveRiskLevels == \A l \in 1..Len(risk_levels) : risk_levels[l] > 0

\* The request has at least one risk level and one benchmark state.
HasBenchmark == Len(risk_levels) > 0 /\ Len(index_returns) > 0

\* The largest benchmark payoff over the states.
MaxBenchmark ==
    CHOOSE b \in {index_returns[s] : s \in 1..Len(index_returns)} :
        \A s \in 1..Len(index_returns) : index_returns[s] <= b

\* The optimal points of the problem without its dominance constraints.
OptimalWithoutDominance ==
    OptimalPoints(vars, objective, SelectSeq(constraints, LAMBDA c : c.kind # "dominance"))

\* C26: in find_arbitrage every dominance constraint is objective * risk
\* level >= benchmark_s * risk level (the return expression is the objective,
\* whatever the state), so with positive risk levels every accepted solution
\* meets the other constraints with an objective value of at least the
\* largest benchmark payoff, and whenever the solve fails the largest
\* benchmark payoff exceeds the best objective value attainable under the
\* other constraints (so the solve fails exactly in that case).
C26_DominanceIsObjectiveAboveBenchmark ==
    PositiveRiskLevels =>
        /\ DominanceAdded =>
              \A j \in DOMAIN constraints :
                  constraints[j].kind = "dominance" =>
                      \E l \in 1..Len(risk_levels), s \in 1..Len(index_returns) :
                          /\ constraints[j].lhs = Scale(objective, risk_levels[l])
                          /\ constraints[j].op = ">="
                          /\ constraints[j].num = index_returns[s] * risk_levels[l]
                          /\ constraints[j].den = 1
        /\ (Accepted /\ HasBenchmark) =>
              /\ Dot(objective, solution.num) >= MaxBenchmark * SolDen
              /\ \A j \in DOMAIN constraints :
                    constraints[j].kind # "dominance" => Satisfies(constraints[j], solution)
        /\ (pc = "panicked" /\ solves > 0 /\ HasBenchmark) =>
              \A x \in OptimalWithoutDominance :
                  MaxBenchmark * x.den > Dot(objective, x.num)

\* An accepted solution whose objective value equals the largest of two
\* different benchmark payoffs, under two risk levels.
C26_Witness ==
    /\ pc = "returned"
    /\ Len(risk_levels) = 2 /\ Len(index_returns) = 2
    /\ index_returns[1] # index_returns[2]
    /\ MaxBenchmark > 0
    /\ Dot(objective, solution.num) = MaxBenchmark * SolDen

\* A solve that failed although the other constraints can be met: the
\* largest benchmark payoff is above the best attainable objective.
C26_WitnessInfeasible ==
    /\ pc = "panicked" /\ solves > 0 /\ HasBenchmark
    /\ Feasible(vars, SelectSeq(constraints, LAMBDA c : c.kind # "dominance"))

\* ---------------------------------------------------------------------- C7
\* C7: in every accepted solution each instrument's outlay net_i * (market
\* price + cost) lies within -capital/n .. capital/n, n the number of
\* instruments of the request.
C7_PositionLimit ==
    Accepted =>
        \A i \in 1..Len(weights) :
            /\ Len(option_data) * Net(i) * UnitCost(i) <= capital * SolDen
            /\ Len(option_data) * Net(i) * UnitCost(i) >= -capital * SolDen

\* The same statement for the requests whose lists have one entry per
\* instrument.
C7_HoldsWhenListsMatch ==
    (Accepted /\ ListsMatch) =>
        \A i \in 1..Len(weights) :
            /\ Len(option_data) * Net(i) * UnitCost(i) <= capital * SolDen
            /\ Len(option_data) * Net(i) * UnitCost(i) >= -capital * SolDen

\* ---------------------------------------------------------------------- C8
\* Profit of the point y: sum of net_i * (theoretical - market - cost), as a
\* numerator over y.den.
ProfitAt(y) ==
    SumSeq([i \in 1..Len(weights) |-> y.num[weights[i]] * UnitProfit(i)], Len(weights))

\* The profit as a linear expression over the problem's variables:
\* (theoretical - market - cost) on each net-position variable.
ProfitExpr ==
    [v \in 1..Len(vars) |->
        SumSeq([i \in 1..Len(weights) |-> IF weights[i] = v THEN UnitProfit(i) ELSE 0],
               Len(weights))]

\* The largest profit of any assignment within the variable bounds that
\* satisfies every constraint of the problem.
BestProfit == OptimalValue(vars, ProfitExpr, constraints)

\* C8: the positions find_arbitrage returns are optimal: no assignment within
\* the variable bounds that satisfies every constraint of the problem has a
\* larger profit, and the long and short parts have no weight in the
\* objective.
C8_ReturnedPositionsOptimal ==
    pc = "assemble" =>
        /\ \A i \in 1..Len(weights) :
              objective[w_plus[i]] = 0 /\ objective[w_minus[i]] = 0
        /\ WithinProblem(vars, constraints, solution)
        /\ LET best == BestProfit
           IN best.num * SolDen <= ProfitAt(solution) * best.den

\* An accepted solution of two instruments, one bought and one sold, with a
\* positive profit, where holding nothing was feasible too.
C8_Witness ==
    /\ pc = "assemble"
    /\ Len(weights) = 2
    /\ Net(1) > 0 /\ Net(2) < 0
    /\ ProfitAt(solution) > 0
    /\ WithinProblem(vars, constraints, Origin(Len(vars)))

\* ---------------------------------------------------------------------- C9
\* How the call ended, once it has.
Ended == pc \in {"returned", "panicked"}
Outcome == IF pc = "returned" THEN "portfolio" ELSE failure

\* Every instrument's theoretical price equals its market price.
NoSignal ==
    \A i \in 1..Len(option_data) :
        compute_theoretical_prices(option_data)[i] = option_data[i].market_price

\* C9: when no instrument is mispriced, the call ends classified "no arbitrage
\* opportunity found" and no instrument gets a position other than 0.
C9_NoSignalNoPosition ==
    (Ended /\ NoSignal) =>
        /\ Outcome = "no arbitrage opportunity found"
        /\ \A i \in DOMAIN holdings : holdings[i].position.num = 0

\* The position part alone: no mispricing, yet a position is returned.
C9_NoSignalPositionsZero ==
    (pc = "returned" /\ NoSignal) =>
        \A i \in DOMAIN holdings : holdings[i].position.num = 0

\* The position part for the requests where the optimum is unique in the net
\* positions: no mispricing and a positive cost on every instrument.
C9_NoSignalWithCostsPositionsZero ==
    (pc = "returned" /\ NoSignal /\ ListsMatch
        /\ \A i \in 1..Len(option_data) : transaction_costs[i] > 0) =>
        \A i \in DOMAIN holdings : holdings[i].position.num = 0

\* --------------------------------------------------------------------- C10
\* The pricing inputs the spec rejects.
InvalidInstrument(o) == o.s <= 0 \/ o.k <= 0 \/ o.t < 0 \/ o.sigma < 0

\* C10: a request with an invalid instrument ends with InvalidInstrument, with
\* no constraint built, no LP solved and no portfolio returned.
C10_InvalidInstrumentRejected ==
    (Ended /\ \E i \in 1..Len(option_data) : InvalidInstrument(option_data[i])) =>
        /\ Outcome = "InvalidInstrument"
        /\ equality_constraints = <<>> /\ constraints = <<>>
        /\ solves = 0
        /\ holdings = <<>>

\* The weakest part alone: an invalid instrument, yet it is solved and gets a
\* position in a returned portfolio.
C10_NoPortfolioForInvalidInstrument ==
    \A i \in 1..Len(option_data) :
        (pc = "returned" /\ InvalidInstrument(option_data[i])) =>
            (i \notin DOMAIN holdings \/ holdings[i].position.num = 0)

\* ------------------------------------------------------------ C11 .. C13
\* The request's lists do not fit its n instruments: a cost or liquidity list
\* of another length, or no benchmark payoff at all.
DimensionsMismatch ==
    \/ Len(transaction_costs) # Len(option_data)
    \/ Len(liquidity) # Len(option_data)
    \/ index_returns = <<>>

\* C11: a request whose transaction_costs or liquidity list has a length other
\* than n, or whose benchmark payoffs are empty, ends with the failure
\* DimensionMismatch: it does not panic on an index, return a portfolio that
\* drops instruments, or solve a problem without dominance constraints.
C11_DimensionMismatchRejected ==
    (Ended /\ DimensionsMismatch) => Outcome = "DimensionMismatch"

\* C11, second part: such a request never reaches the solve.
C11_NoSolveOnDimensionMismatch == DimensionsMismatch => solves = 0

\* The backend has been asked and found no feasible point.
BackendReportedInfeasible ==
    solves = 1 /\ ~Feasible(vars, constraints)

\* C12: when the LP backend reports Infeasible, the call ends by returning that
\* failure as a value: it never panics and never returns a portfolio.
C12_SolveFailureReturnedAsValue ==
    (Ended /\ BackendReportedInfeasible) => Outcome = "Err(Infeasible)"

\* C12, weaker half: no portfolio is returned after a failed solve.
C12_NoPortfolioAfterFailedSolve ==
    BackendReportedInfeasible => (pc # "returned" /\ holdings = <<>>)

\* Number of constraints of the given kind in the problem.
CountKind(kind) == Len(SelectSeq(constraints, LAMBDA c : c.kind = kind))

\* Every group of constraints find_arbitrage builds is in the problem.
AllConstraintsAdded ==
    /\ CountKind("equality") = Len(weights)
    /\ CountKind("capital") = 1
    /\ CountKind("liquidity") = 2 * Len(weights)
    /\ CountKind("dominance") = Len(risk_levels) * Len(index_returns)
    /\ CountKind("position_limit") = 2 * Len(weights)

\* C13: within one request the solve runs at most once and only after every
\* constraint has been added; a request that returns a portfolio solved exactly
\* once; after the solve no constraint, bound or objective changes (nothing is
\* relaxed), and once the failure is reported the call takes no further step.
C13_SolveOnceAfterAllConstraints ==
    [][/\ solves' <= 1
       /\ (solves' # solves => (pc = "solve" /\ AllConstraintsAdded))
       /\ (pc' = "returned" => solves' = 1)
       /\ (solves = 1 => UNCHANGED <<constraints, vars, objective>>)
       /\ failure = "none"]_vars_all

\* A solve failed, the failure ended the call, and it was the only solve.
C13_Witness ==
    /\ pc = "panicked"
    /\ failure = "unwrap on Err(Infeasible)"
    /\ solves = 1
    /\ AllConstraintsAdded
    /\ CountKind("dominance") > 0

\* ================================================================ pricing
\* Largest underlying price and strike passed to the pricing functions.
MaxPrice == 3

\* Arguments of the pricing functions on which f64 arithmetic is exact: at
\* expiry (any rate and volatility), one year out with zero rate and zero
\* volatility, and a negative time to maturity.
PricingInputs ==
    {[s |-> s, k |-> k, t |-> 0, r |-> r, sigma |-> sigma] :
        s \in 0..MaxPrice, k \in 0..MaxPrice, r \in {0, 1}, sigma \in {0, 1}}
    \cup {[s |-> s, k |-> k, t |-> t, r |-> 0, sigma |-> 0] :
        s \in 0..MaxPrice, k \in 0..MaxPrice, t \in {-1, 1}}

PricingInit ==
    /\ bs_args \in PricingInputs
    /\ bs_call = Float("unpriced", 0)
    /\ bs_put = Float("unpriced", 0)
    /\ ArbIdle /\ OpreIdle /\ IndicatorsIdle /\ BatchIdle /\ OthersIdle

\* A call of black_scholes_call.
PriceCall ==
    /\ bs_call.state = "unpriced"
    /\ bs_call' = IF PriceIsNumber(bs_args)
                  THEN Float("num", black_scholes_call(bs_args.s, bs_args.k, bs_args.t,
                                                       bs_args.r, bs_args.sigma))
                  ELSE Float("nan", 0)
    /\ UNCHANGED <<bs_args, bs_put, pricing_rest>>

\* A call of black_scholes_put.
PricePut ==
    /\ bs_put.state = "unpriced"
    /\ bs_put' = IF PriceIsNumber(bs_args)
                 THEN Float("num", black_scholes_put(bs_args.s, bs_args.k, bs_args.t,
                                                     bs_args.r, bs_args.sigma))
                 ELSE Float("nan", 0)
    /\ UNCHANGED <<bs_args, bs_call, pricing_rest>>

PricingNext == PriceCall \/ PricePut

SpecPricing == PricingInit /\ [][PricingNext]_vars_all

\* Both prices of the arguments have been computed.
Priced == bs_call.state \in {"num", "nan"} /\ bs_put.state \in {"num", "nan"}

\* The arguments the pricing contract accepts: s > 0, k > 0, t >= 0, sigma >= 0.
ValidPricingArgs ==
    bs_args.s > 0 /\ bs_args.k > 0 /\ bs_args.t >= 0 /\ bs_args.sigma >= 0

\* C14: at t == 0 the call price is exactly max(s - k, 0) and the put price
\* exactly max(k - s, 0), whatever s, k, r and sigma are; in particular the
\* result is a number where the division in d1 would be 0/0.
C14_IntrinsicValueAtExpiry ==
    (Priced /\ bs_args.t = 0) =>
        /\ bs_call = Float("num", Max(bs_args.s - bs_args.k, 0))
        /\ bs_put = Float("num", Max(bs_args.k - bs_args.s, 0))

\* Priced at expiry with zero volatility and s == k, where d1 would be 0/0.
C14_Witness ==
    /\ Priced
    /\ bs_args.t = 0 /\ bs_args.sigma = 0 /\ bs_args.r = 1
    /\ bs_args.s = bs_args.k /\ bs_args.s > 0
    /\ bs_call = Float("num", 0) /\ bs_put = Float("num", 0)

\* C15: for sigma == 0 and t > 0 and valid s, k the prices are the discounted
\* intrinsic values max(s - k*e^(-r*t), 0) and max(k*e^(-r*t) - s, 0), also
\* where ln(s/k) + r*t == 0.  (The rate is 0 here, so e^(-r*t) is 1.)
C15_ZeroVolatilityDiscountedIntrinsic ==
    (Priced /\ ValidPricingArgs /\ bs_args.t > 0 /\ bs_args.sigma = 0 /\ bs_args.r = 0) =>
        /\ bs_call = Float("num", Max(bs_args.s - bs_args.k, 0))
        /\ bs_put = Float("num", Max(bs_args.k - bs_args.s, 0))

\* C15 away from the degenerate point: with ln(s/k) + r*t # 0 the closed form
\* gives the discounted intrinsic value.
C15_HoldsAwayFromTheMoney ==
    (Priced /\ ValidPricingArgs /\ bs_args.t > 0 /\ bs_args.sigma = 0 /\ bs_args.r = 0
        /\ bs_args.s # bs_args.k) =>
        /\ bs_call = Float("num", Max(bs_args.s - bs_args.k, 0))
        /\ bs_put = Float("num", Max(bs_args.k - bs_args.s, 0))

\* C16: put-call parity, call - put == s - k*e^(-r*t), for every valid
\* (s, k, t, r, sigma).  (On the arguments priced here e^(-r*t) is 1.)
C16_PutCallParity ==
    (Priced /\ ValidPricingArgs) =>
        /\ bs_call.state = "num" /\ bs_put.state = "num"
        /\ bs_call.value - bs_put.value = bs_args.s - bs_args.k

\* C16 where both prices are numbers.
C16_ParityWhenPricesAreNumbers ==
    (Priced /\ ValidPricingArgs /\ bs_call.state = "num" /\ bs_put.state = "num") =>
        bs_call.value - bs_put.value = bs_args.s - bs_args.k

\* ==================================================== opre_risk_arbitrage
\* objective_value >= -1e-6, for the objective value n/d, d > 0.
NotSignificantlyNegative(n, d) == n * 1000000 >= -d

\* initialize_positions with the sell variables allowed up to twice the
\* liquidity limit.
initialize_positions_double_sell_limit(num_assets, liq) ==
    [vars |-> [j \in 1..(2 * num_assets) |->
                  [lo |-> 0,
                   hi |-> IF j <= num_assets THEN liq[j]
                          ELSE 2 * liq[j - num_assets]]],
     alpha |-> [i \in 1..num_assets |-> i],
     beta |-> [i \in 1..num_assets |-> num_assets + i]]

\* initialize_positions: the n buy variables, then the n sell variables, each
\* within 0..liquidity[i].
initialize_positions(num_assets, liq) ==
    [vars |-> [j \in 1..(2 * num_assets) |->
                  [lo |-> 0, hi |-> liq[((j - 1) % num_assets) + 1]]],
     alpha |-> [i \in 1..num_assets |-> i],
     beta |-> [i \in 1..num_assets |-> num_assets + i]]

\* opre build_objective: income, expenditure and net investment.
opre_build_objective(al, be, mp, tc, nv) ==
    LET income == SumExprs([i \in 1..Len(be) |-> Term(be[i], mp[i] - tc[i], nv)],
                           Len(be), nv)
        expend == SumExprs([i \in 1..Len(al) |-> Term(al[i], mp[i] + tc[i], nv)],
                           Len(al), nv)
    IN [net_investment |-> Plus(expend, Scale(income, -1)),
        income |-> income,
        expenditure |-> expend]

\* The payoff of one option in one state (lines 174-178).
intrinsic_value(option, price) ==
    CASE option.option_type = "call" -> Max(price - option.k, 0)
      [] option.option_type = "put" -> Max(option.k - price, 0)
      [] OTHER -> 0

\* add_state_payoff_constraints asking for a net profit of at least 1 in
\* every state.
add_state_payoff_constraints_strict_profit(al, be, options, asset_prices, net, nv) ==
    [st \in 1..Len(asset_prices) |->
        LET payoff ==
                SumExprs([i \in 1..Len(options) |->
                             Scale(Plus(Term(al[i], 1, nv), Term(be[i], -1, nv)),
                                   intrinsic_value(options[i], asset_prices[st]))],
                         Len(options), nv)
        IN Constraint("state_payoff", Plus(payoff, Scale(net, -1)), ">=", 1, 1)]

\* add_state_payoff_constraints: per state, payoff - net_investment >= 0.
add_state_payoff_constraints(al, be, options, asset_prices, net, nv) ==
    [st \in 1..Len(asset_prices) |->
        LET payoff ==
                SumExprs([i \in 1..Len(options) |->
                             Scale(Plus(Term(al[i], 1, nv), Term(be[i], -1, nv)),
                                   intrinsic_value(options[i], asset_prices[st]))],
                         Len(options), nv)
        IN Constraint("state_payoff", Plus(payoff, Scale(net, -1)), ">=", 0, 1)]

\* vars.minimise(objective) ... solve(): the optimal basic solutions of least
\* value.
MinimalPoints(bounds, obj, cons) == OptimalPoints(bounds, Scale(obj, -1), cons)

\* Arguments of find_arbitrage.
OpreRequest(mp, tc, cap, liq, aps, od) ==
    [market_prices |-> mp, transaction_costs |-> tc, capital |-> cap,
     liquidity |-> liq, asset_prices |-> aps, option_data |-> od]

OpreOption(type, k) == [option_type |-> type, k |-> k]

\* Largest number of options in a request to opre find_arbitrage.
MaxOpreAssets == 2

\* Requests with one cost, limit and option record per market price.
OpreRegularRequests ==
    UNION {
        {OpreRequest(mp, tc, cap, liq, aps, od) :
            mp \in [1..n -> {1, 2}],
            tc \in [1..n -> {0, 1}],
            cap \in {-1, 4},
            liq \in {[i \in 1..n |-> 2]},
            aps \in SeqsOf({1, 3}, 0, 2),
            od \in [1..n -> {OpreOption("call", 2), OpreOption("put", 2)}]} :
        n \in 1..Min(MaxOpreAssets, 2)}
    \cup UNION {
        {OpreRequest([i \in 1..n |-> 2], [i \in 1..n |-> 0], 4, [i \in 1..n |-> 1],
                     <<3>>, od) :
            od \in [1..n -> {OpreOption("call", 2), OpreOption("put", 2),
                             OpreOption("straddle", 2)}]} :
        n \in 1..MaxOpreAssets}

\* Requests at the edge of the feasible region: no capital, and liquidity
\* limits of 0, 1 or below 0.
OpreBoundaryRequests ==
    UNION {
        {OpreRequest([i \in 1..n |-> 2], [i \in 1..n |-> 1], cap, liq, aps, od) :
            cap \in {0, 3},
            liq \in [1..n -> {-1, 0, 1}],
            aps \in {<<>>, <<1, 3>>},
            od \in [1..n -> {OpreOption("call", 2), OpreOption("put", 2)}]} :
        n \in 1..Min(MaxOpreAssets, 2)}

\* Two options and a terminal price high enough for a sold call to lose
\* more than its premium.
OpreSpreadRequests ==
    {OpreRequest(mp, <<0, 0>>, cap, <<2, 2>>, <<1, 5>>, od) :
        mp \in [1..2 -> {1, 2}],
        cap \in {0, 4},
        od \in [1..2 -> {OpreOption("call", 2), OpreOption("put", 2)}]}

\* Two deep in-the-money calls at different premiums: the cheapest way to
\* cover the terminal state buys and sells fractions of an option.
OpreSkewRequests ==
    {OpreRequest(mp, <<0, 0>>, 4, <<2, 2>>, <<10>>,
                 <<OpreOption("call", 1), OpreOption("call", 1)>>) :
        mp \in {<<3, 4>>, <<4, 3>>}}

\* Requests whose lists differ in length.
OpreRaggedRequests ==
    {OpreRequest(<<2>>, tc, 4, liq, aps, od) :
        tc \in SeqsOf({0}, 0, 2), liq \in SeqsOf({1}, 0, 2),
        aps \in {<<>>, <<3>>},
        od \in SeqsOf({OpreOption("put", 2)}, 0, 2)}

OpreInit ==
    /\ o_request \in OpreRegularRequests \cup OpreBoundaryRequests
                       \cup OpreSpreadRequests \cup OpreSkewRequests
                       \cup OpreRaggedRequests
    /\ o_pc = "initialize_positions"
    /\ o_vars = <<>> /\ alpha = <<>> /\ beta = <<>>
    /\ net_investment = <<>> /\ expenditure = <<>>
    /\ o_constraints = <<>> /\ o_solves = 0 /\ o_solution = <<>> /\ o_result = <<>>
    /\ ArbIdle /\ PricingIdle /\ IndicatorsIdle /\ BatchIdle /\ OthersIdle

\* find_arbitrage lines 100-105; liquidity[i] panics when liquidity is shorter
\* than market_prices.
InitializePositions ==
    /\ o_pc = "initialize_positions"
    /\ LET n == Len(o_request.market_prices)
       IN IF Len(o_request.liquidity) < n
          THEN /\ o_pc' = "panicked"
               /\ UNCHANGED <<o_vars, alpha, beta>>
          ELSE LET ip == initialize_positions(n, o_request.liquidity)
               IN /\ o_vars' = ip.vars
                  /\ alpha' = ip.alpha
                  /\ beta' = ip.beta
                  /\ o_pc' = "build_objective"
    /\ UNCHANGED <<o_request, net_investment, expenditure, o_constraints, o_solves,
                   o_solution, o_result, opre_rest>>

\* find_arbitrage lines 108-112; transaction_costs[i] panics when
\* transaction_costs is shorter than market_prices.
OpreBuildObjective ==
    /\ o_pc = "build_objective"
    /\ IF Len(o_request.transaction_costs) < Len(beta)
       THEN /\ o_pc' = "panicked"
            /\ UNCHANGED <<net_investment, expenditure>>
       ELSE LET ob == opre_build_objective(alpha, beta, o_request.market_prices,
                                           o_request.transaction_costs, Len(o_vars))
            IN /\ net_investment' = ob.net_investment
               /\ expenditure' = ob.expenditure
               /\ o_pc' = "add_capital_constraint"
    /\ UNCHANGED <<o_request, o_vars, alpha, beta, o_constraints, o_solves,
                   o_solution, o_result, opre_rest>>

\* find_arbitrage line 115.
OpreAddCapitalConstraint ==
    /\ o_pc = "add_capital_constraint"
    /\ o_constraints' = Append(o_constraints,
            Constraint("capital", expenditure, "<=", o_request.capital, 1))
    /\ o_pc' = "add_state_payoff_constraints"
    /\ UNCHANGED <<o_request, o_vars, alpha, beta, net_investment, expenditure,
                   o_solves, o_solution, o_result, opre_rest>>

\* find_arbitrage lines 118-125; alpha[i] panics when option_data is longer
\* than market_prices and there is a state to build.
AddStatePayoffConstraints ==
    /\ o_pc = "add_state_payoff_constraints"
    /\ IF Len(o_request.asset_prices) > 0 /\ Len(o_request.option_data) > Len(alpha)
       THEN /\ o_pc' = "panicked"
            /\ UNCHANGED o_constraints
       ELSE /\ o_constraints' = o_constraints \o
                    add_state_payoff_constraints(alpha, beta, o_request.option_data,
                                                 o_request.asset_prices, net_investment,
                                                 Len(o_vars))
            /\ o_pc' = "solve"
    /\ UNCHANGED <<o_request, o_vars, alpha, beta, net_investment, expenditure,
                   o_solves, o_solution, o_result, opre_rest>>

\* find_arbitrage line 128: Ok(an optimal point) or Err(Infeasible).
OpreSolve ==
    /\ o_pc = "solve"
    /\ o_solves' = o_solves + 1
    /\ LET best == MinimalPoints(o_vars, net_investment, o_constraints)
       IN IF best = {}
          THEN o_solution' = [ok |-> FALSE, point |-> NoPoint]
          ELSE \E x \in best : o_solution' = [ok |-> TRUE, point |-> x]
    /\ o_pc' = "match"
    /\ UNCHANGED <<o_request, o_vars, alpha, beta, net_investment, expenditure,
                   o_constraints, o_result, opre_rest>>

\* The positions of lines 146-150: alpha_i - beta_i.
positions_of(al, be, sol) == [i \in 1..Min(Len(al), Len(be)) |-> Frac(sol.num[al[i]] - sol.num[be[i]], sol.den)]

OpreErr(msg) == [ok |-> FALSE, err |-> msg, positions |-> <<>>]
OpreOk(pos) == [ok |-> TRUE, err |-> "", positions |-> pos]

\* The positions returned for every successful solve, whatever the optimum.
OpreMatchWithoutThreshold ==
    /\ o_pc = "match"
    /\ o_result' = IF o_solution.ok
                   THEN OpreOk(positions_of(alpha, beta, o_solution.point))
                   ELSE OpreErr("Optimization failed: Infeasible")
    /\ o_pc' = "returned"
    /\ UNCHANGED <<o_request, o_vars, alpha, beta, net_investment, expenditure,
                   o_constraints, o_solves, o_solution, opre_rest>>

\* find_arbitrage lines 134-158.
OpreMatch ==
    /\ o_pc = "match"
    /\ o_result' =
          IF o_solution.ok
          THEN IF NotSignificantlyNegative(Dot(net_investment, o_solution.point.num),
                                           o_solution.point.den)
               THEN OpreErr("No arbitrage opportunity found.")
               ELSE OpreOk(positions_of(alpha, beta, o_solution.point))
          ELSE OpreErr("Optimization failed: Infeasible")
    /\ o_pc' = "returned"
    /\ UNCHANGED <<o_request, o_vars, alpha, beta, net_investment, expenditure,
                   o_constraints, o_solves, o_solution, opre_rest>>

OpreNext ==
    \/ InitializePositions
    \/ OpreBuildObjective
    \/ OpreAddCapitalConstraint
    \/ AddStatePayoffConstraints
    \/ OpreSolve
    \/ OpreMatch

SpecOpre == OpreInit /\ [][OpreNext]_vars_all

\* C17: in opre find_arbitrage, a successful solve whose optimum is not below
\* -1e-6 gives Err("No arbitrage opportunity found."); a failed solve gives
\* Err("Optimization failed: ..."), a different value; positions are returned
\* only when the optimum is below -1e-6; and once the solve has run the call
\* does not panic.
C17_NoArbitrageIsDistinguished ==
    /\ (o_solves > 0 => o_pc # "panicked")
    /\ (o_pc = "returned" =>
          LET value == Dot(net_investment, o_solution.point.num)
              den == o_solution.point.den
          IN /\ (o_solution.ok /\ NotSignificantlyNegative(value, den)) =>
                    o_result = OpreErr("No arbitrage opportunity found.")
             /\ ~o_solution.ok => o_result = OpreErr("Optimization failed: Infeasible")
             /\ o_result.ok =>
                    /\ o_solution.ok
                    /\ ~NotSignificantlyNegative(value, den)
                    /\ o_result.positions = positions_of(alpha, beta, o_solution.point))

\* A successful solve with optimum 0 was answered with the no-arbitrage error.
C17_Witness ==
    /\ o_pc = "returned"
    /\ o_solution.ok
    /\ Dot(net_investment, o_solution.point.num) = 0
    /\ o_result = OpreErr("No arbitrage opportunity found.")

\* Positions were returned for a negative optimum.
C17_WitnessArbitrage ==
    /\ o_pc = "returned" /\ o_result.ok
    /\ Dot(net_investment, o_solution.point.num) < 0

\* A failed solve was answered with the optimization-failed error.
C17_WitnessFailedSolve ==
    /\ o_pc = "returned" /\ ~o_solution.ok
    /\ o_result = OpreErr("Optimization failed: Infeasible")

\* The buy and sell amounts of option i in the solution, as numerators over
\* the common denominator OpreDen.
OpreDen == o_solution.point.den
Bought(i) == o_solution.point.num[alpha[i]]
Sold(i) == o_solution.point.num[beta[i]]

\* Sum over the options 1..n of f[i].
RECURSIVE SumOver(_, _)
SumOver(f, n) == IF n = 0 THEN 0 ELSE SumOver(f, n - 1) + f[n]

\* Cash paid for the buys, and received for the sells, of the solution, as
\* numerators over OpreDen.
BuyExpenditure ==
    SumOver([i \in 1..Len(alpha) |->
                Bought(i) * (o_request.market_prices[i] + o_request.transaction_costs[i])],
            Len(alpha))
SellIncome ==
    SumOver([i \in 1..Len(beta) |->
                Sold(i) * (o_request.market_prices[i] - o_request.transaction_costs[i])],
            Len(beta))
NetInvestment == BuyExpenditure - SellIncome

\* The product of the denominators of the returned positions.
PositionsDen ==
    LET RECURSIVE prod(_)
        prod(n) == IF n = 0 THEN 1 ELSE prod(n - 1) * o_result.positions[n].den
    IN prod(Len(o_result.positions))

\* Intrinsic payoff of the returned positions when the asset ends at price,
\* as a numerator over PositionsDen.
StatePayoff(price) ==
    SumOver([i \in 1..Len(o_request.option_data) |->
                o_result.positions[i].num * (PositionsDen \div o_result.positions[i].den) *
                    (IF o_request.option_data[i].option_type = "call"
                     THEN Max(price - o_request.option_data[i].k, 0)
                     ELSE IF o_request.option_data[i].option_type = "put"
                     THEN Max(o_request.option_data[i].k - price, 0)
                     ELSE 0)],
            Len(o_request.option_data))

\* C25: when opre find_arbitrage returns Ok(positions): every |position_i| is
\* at most liquidity_i, the buy expenditure sum alpha_i * (market_price_i +
\* transaction_cost_i) is at most capital, the net investment is below -1e-6,
\* and in every terminal state the intrinsic payoff of the positions minus
\* the net investment is >= 0.
C25_ReturnedPositionsAreArbitrage ==
    (o_pc = "returned" /\ o_result.ok) =>
        /\ \A i \in 1..Len(o_result.positions) :
              /\ o_result.positions[i] = Frac(Bought(i) - Sold(i), OpreDen)
              /\ o_result.positions[i].num <= o_request.liquidity[i] * o_result.positions[i].den
              /\ -o_result.positions[i].num <= o_request.liquidity[i] * o_result.positions[i].den
        /\ BuyExpenditure <= o_request.capital * OpreDen
        /\ NetInvestment * 1000000 < -OpreDen
        /\ \A st \in 1..Len(o_request.asset_prices) :
              StatePayoff(o_request.asset_prices[st]) * OpreDen
                  - NetInvestment * PositionsDen >= 0

\* Positions were returned that buy one option and sell another, with two
\* terminal states to cover.
C25_Witness ==
    /\ o_pc = "returned" /\ o_result.ok
    /\ Len(o_request.asset_prices) = 2
    /\ \E i, j \in 1..Len(o_result.positions) :
          o_result.positions[i].num > 0 /\ o_result.positions[j].num < 0

\* Positions were returned that are not whole numbers: 4/3 of one option
\* bought and 8/5 of the other sold.
C25_WitnessFractional ==
    /\ o_pc = "returned" /\ o_result.ok
    /\ o_result.positions = <<Frac(4, 3), Frac(-8, 5)>>
    /\ NetInvestment * 5 = -12 * OpreDen

\* Positions were returned that sell up to the liquidity limit.
C25_WitnessAtLimit ==
    /\ o_pc = "returned" /\ o_result.ok
    /\ \E i \in 1..Len(o_result.positions) :
          o_result.positions[i] = Frac(-o_request.liquidity[i], 1)

\* The assignment with no buys and no sells.
ZeroAssignment == Origin(Len(o_vars))

\* Capital and every liquidity limit of the request are >= 0.
NothingNegative ==
    /\ o_request.capital >= 0
    /\ \A i \in 1..Len(o_request.liquidity) : o_request.liquidity[i] >= 0

\* Every constraint of find_arbitrage has been added to the problem.
OpreProblemBuilt == o_pc \in {"solve", "match", "returned"}

\* C27: in opre find_arbitrage, when capital >= 0 and all liquidity limits are
\* >= 0, the all-zero assignment is within every variable's bounds and
\* satisfies every constraint, so the solve does not fail and the optimal net
\* investment is not greater than 0.
C27_ZeroAssignmentIsFeasible ==
    (NothingNegative /\ OpreProblemBuilt) =>
        /\ \A j \in 1..Len(o_vars) : o_vars[j].lo <= 0 /\ 0 <= o_vars[j].hi
        /\ \A c \in 1..Len(o_constraints) : Satisfies(o_constraints[c], ZeroAssignment)
        /\ o_solves > 0 =>
              /\ o_solution.ok
              /\ Dot(net_investment, o_solution.point.num) <= 0
              /\ NetInvestment <= 0

\* No capital and an option without liquidity, two terminal states: the solve
\* succeeded.
C27_Witness ==
    /\ o_pc = "returned"
    /\ o_request.capital = 0
    /\ \E i \in 1..Len(o_request.liquidity) : o_request.liquidity[i] = 0
    /\ Len(o_request.asset_prices) = 2
    /\ o_solution.ok

\* With negative capital or a negative liquidity limit the solve fails.
C27_WitnessNegativeInputs ==
    /\ o_pc = "returned" /\ ~NothingNegative /\ ~o_solution.ok

\* ======================================================= batched requests
\* Largest number of requests in a batch.
MaxBatch == 2

\* One instrument at expiry with strike 2, zero rate and volatility.
BatchOption(type, s) == Named(<<Option(type, s, 2, 0, 0, 1)>>)

\* The requests a batch is made of: buy, sell, a tie between every feasible
\* portfolio, an infeasible benchmark, two instruments, and one limit for two
\* instruments.
BatchRequests ==
    {Request(BatchOption("call", 4), 12, <<1>>, <<0>>, <<0>>, <<2>>),
     Request(BatchOption("put", 4), 12, <<1>>, <<0>>, <<0>>, <<2>>),
     Request(BatchOption("put", 1), 4, <<1>>, <<0>>, <<0>>, <<1>>),
     Request(BatchOption("call", 4), 12, <<1>>, <<5>>, <<0>>, <<2>>),
     Request(Named(<<Option("call", 4, 2, 0, 0, 1), Option("put", 4, 2, 0, 0, 1)>>),
             12, <<2>>, <<0>>, <<0, 1>>, <<1, 1>>),
     Request(Named(<<Option("put", 5, 2, 0, 0, 1), Option("call", 5, 2, 0, 0, 1)>>),
             4, <<1>>, <<>>, <<1, 1>>, <<2>>)}

BatchInit ==
    /\ pending \in SeqsOf(BatchRequests, 1, MaxBatch)
    /\ results = <<>>
    /\ ArbIdle /\ PricingIdle /\ OpreIdle /\ IndicatorsIdle /\ OthersIdle

\* The caller passes the next request of the batch to construct_portfolio.
\* (solves counts the solves of the request being run.)
StartCall ==
    /\ pc = "idle"
    /\ pending # <<>>
    /\ option_data' = Head(pending).option_data
    /\ capital' = Head(pending).capital
    /\ risk_levels' = Head(pending).risk_levels
    /\ index_returns' = Head(pending).index_returns
    /\ transaction_costs' = Head(pending).transaction_costs
    /\ liquidity' = Head(pending).liquidity
    /\ pending' = Tail(pending)
    /\ solves' = 0
    /\ pc' = "construct_portfolio"
    /\ UNCHANGED <<market_prices, problem, solution, holdings, failure, results,
                   pricing_vars, opre_vars, indicator_vars, other_vars>>

\* What the caller gets from a call: the portfolio, or the panic.
PortfolioOutcome(h) == [kind |-> "portfolio", holdings |-> h]
PanicOutcome(msg) == [kind |-> msg, holdings |-> <<>>]

\* construct_portfolio returns to the caller, which keeps the portfolio; a
\* panic ends the whole batch.
ReturnToCaller ==
    /\ pc \in {"returned", "panicked"}
    /\ results' = Append(results,
          [request |-> Request(option_data, capital, risk_levels, index_returns,
                               transaction_costs, liquidity),
           outcome |-> IF pc = "returned" THEN PortfolioOutcome(holdings)
                                          ELSE PanicOutcome(failure)])
    /\ pc' = IF pc = "returned" THEN "idle" ELSE "aborted"
    /\ UNCHANGED <<inputs, market_prices, problem, solves, solution, holdings, failure,
                   pending, pricing_vars, opre_vars, indicator_vars, other_vars>>

BatchNext ==
    \/ StartCall
    \/ ConstructPortfolio
    \/ InitializeWeights
    \/ ComputeTheoreticalPrices
    \/ BuildObjective
    \/ AddEqualityConstraints
    \/ AddCapitalConstraint
    \/ AddLiquidityConstraints
    \/ AddStochasticDominanceConstraints
    \/ AddPositionLimits
    \/ Solve
    \/ AssemblePortfolio
    \/ ReturnToCaller

SpecBatch == BatchInit /\ [][BatchNext]_vars_all

\* construct_portfolio as a function of its arguments: every outcome the call
\* can have when it is the only call ever made.
construct_portfolio_alone(rq) ==
    LET mp == [i \in 1..Len(rq.option_data) |-> rq.option_data[i].market_price]
        iw == initialize_weights(Len(mp), rq.liquidity)
        tp == compute_theoretical_prices(rq.option_data)
        nv == Len(iw.vars)
        tc == rq.transaction_costs
    IN IF IndexOutOfBounds(iw.weights, mp, tp, tc)
       THEN {PanicOutcome("index out of bounds")}
       ELSE LET obj == build_objective(iw.weights, mp, tp, tc, nv)
                cons ==
                    iw.constraints
                    \o <<Constraint("capital",
                                    compute_total_capital_constraint(
                                        iw.w_plus, iw.w_minus, mp, tc, nv),
                                    "<=", rq.capital, 1)>>
                    \o add_liquidity_constraints(iw.w_plus, iw.w_minus, rq.liquidity, nv)
                    \o add_stochastic_dominance_constraints(
                           portfolio_returns_of(Len(rq.index_returns), iw.weights,
                                                mp, tp, tc, nv),
                           rq.index_returns, rq.risk_levels)
                    \o position_limit_constraints(iw.weights, mp, tc, rq.capital, nv)
                best == OptimalPoints(iw.vars, obj, cons)
            IN IF best = {}
               THEN {PanicOutcome("unwrap on Err(Infeasible)")}
               ELSE {PortfolioOutcome(
                        zip_holdings(rq.option_data,
                                     portfolio_weights_of(iw.weights, x))) : x \in best}

\* C18: every request of a batch, wherever it stands in the batch and whatever
\* ran before it, ends with an outcome it can have when run alone: no variable,
\* constraint or result of an earlier call reaches a later one.
C18_RequestsAreIndependent ==
    \A i \in DOMAIN results :
        results[i].outcome \in construct_portfolio_alone(results[i].request)

\* Two requests ran one after the other, the first buying and the second
\* selling the same-named instrument.
C18_Witness ==
    /\ Len(results) = 2
    /\ results[1].outcome.kind = "portfolio"
    /\ results[2].outcome.kind = "portfolio"
    /\ results[1].outcome.holdings # <<>>
    /\ results[2].outcome.holdings # <<>>
    /\ results[1].outcome.holdings[1].position = Frac(2, 1)
    /\ results[2].outcome.holdings[1].position = Frac(-2, 1)

\* ============================================== strato-utils ta, grid/dynamic
\* f64 values as exact fractions n/d (d > 0, lowest terms), or NaN.  The
\* inputs below keep every denominator a power of two, where f64 is exact.
RECURSIVE GCD(_, _)
GCD(a, b) == IF b = 0 THEN a ELSE GCD(b, a % b)

Abs(x) == IF x < 0 THEN -x ELSE x

Rat(n, d) ==
    LET g == GCD(Abs(n), d)
    IN [state |-> "num", n |-> n \div g, d |-> d \div g]

RatNaN == [state |-> "nan", n |-> 0, d |-> 1]

IsNaN(x) == x.state = "nan"

RatAdd(x, y) ==
    IF IsNaN(x) \/ IsNaN(y) THEN RatNaN ELSE Rat(x.n * y.d + y.n * x.d, x.d * y.d)

RatSub(x, y) ==
    IF IsNaN(x) \/ IsNaN(y) THEN RatNaN ELSE Rat(x.n * y.d - y.n * x.d, x.d * y.d)

\* x * k for an integer k.
RatScale(x, k) == IF IsNaN(x) THEN RatNaN ELSE Rat(x.n * k, x.d)

\* x / k for a count k >= 0; 0.0 / 0.0 is NaN (a non-zero x is never divided
\* by 0 here: k is 0 only for the sum of an empty slice).
RatDiv(x, k) ==
    IF IsNaN(x) \/ k = 0 THEN RatNaN ELSE Rat(x.n, x.d * k)

\* src[from..=to].iter().sum()
RECURSIVE RatSum(_, _, _)
RatSum(src, from, to) ==
    IF to < from THEN Rat(0, 1) ELSE RatAdd(RatSum(src, from, to - 1), src[to])

\* rma.rs lines 13-17: push alpha*src[i] + (1 - alpha)*prev for the rest of src.
RECURSIVE rma_rest(_, _, _, _)
rma_rest(src, length, rma_values, i) ==
    IF i > Len(src)
    THEN rma_values
    ELSE rma_rest(src, length,
                  Append(rma_values,
                         RatAdd(RatDiv(src[i], length),
                                RatDiv(RatScale(rma_values[i - 1], length - 1), length))),
                  i + 1)

\* rma.rs rma: the first value is the mean of the first length values, or of
\* all of src when src is shorter (0.0 / 0.0 for an empty src); it is pushed
\* in either case.
rma(src, length) ==
    rma_rest(src, length,
             <<IF Len(src) >= length
               THEN RatDiv(RatSum(src, 1, length), length)
               ELSE RatDiv(RatSum(src, 1, Len(src)), Len(src))>>,
             2)

\* sma.rs sma: 0.0 until the window is full, then the mean of the window.
sma(src, length) ==
    [i \in 1..Len(src) |->
        IF i < length THEN Rat(0, 1) ELSE RatDiv(RatSum(src, i + 1 - length, i), length)]

\* atr.rs lines 9-12: the true range of candle i (i > 1).
true_range_at(cs, i) ==
    Max(Max(cs[i].high - cs[i].low, Abs(cs[i].high - cs[i - 1].close)),
        Abs(cs[i].low - cs[i - 1].close))

\* atr.rs true_range: 0.0 for the first candle.
true_range(cs) ==
    [i \in 1..Len(cs) |-> IF i = 1 THEN Rat(0, 1) ELSE Rat(true_range_at(cs, i), 1)]

\* atr.rs atr: its own true-range loop (lines 19-26), then rma.
atr(cs, length) ==
    rma([i \in 1..Len(cs) |-> IF i = 1 THEN Rat(0, 1) ELSE Rat(true_range_at(cs, i), 1)],
        length)

\* dynamic.rs calculate_src: (open + high + low + close) / 4.
calculate_src(cs) ==
    [i \in 1..Len(cs) |-> Rat(cs[i].open + cs[i].high + cs[i].low + cs[i].close, 4)]

\* dynamic.rs calculate_grid_levels: one premium and one discount level per
\* element of rma; atr[i] panics when atr is shorter than rma.
calculate_grid_levels(ma, at, band_mult) ==
    IF Len(at) < Len(ma)
    THEN [panicked |-> TRUE, premium |-> <<>>, discount |-> <<>>]
    ELSE [panicked |-> FALSE,
          premium |-> [i \in 1..Len(ma) |-> RatAdd(ma[i], RatScale(at[i], band_mult))],
          discount |-> [i \in 1..Len(ma) |-> RatSub(ma[i], RatScale(at[i], band_mult))]]

\* dynamic.rs generate_grid_levels.
generate_grid_levels(cs, params) ==
    LET src == calculate_src(cs)
        ma_values == IF params.ma_type = "Sma" THEN sma(src, params.ma_len)
                                               ELSE rma(src, params.ma_len)
        at == atr(cs, params.atr_len)
    IN calculate_grid_levels(ma_values, at, params.band_mult)

\* Largest number of candles in a slice.
MaxCandles == 3

Candle(o, h, l, c) == [open |-> o, high |-> h, low |-> l, close |-> c]

\* Candles a slice is made of: a rising one, a flat one, a wide one that
\* closes at its low, and one that gaps above the others.
CandlePool ==
    {Candle(2, 4, 2, 4), Candle(2, 2, 2, 2), Candle(4, 6, 0, 0), Candle(8, 8, 6, 6)}

\* GridParams with lengths 1 and 2 (alpha 1 and 0.5) and band_mult 2.
GridParamsPool ==
    {[ma_len |-> m, ma_type |-> ty, band_mult |-> 2, atr_len |-> a] :
        m \in {1, 2}, ty \in {"Rma", "Sma"}, a \in {1, 2}}

NotComputed == [done |-> FALSE, panicked |-> FALSE, values |-> <<>>,
                premium |-> <<>>, discount |-> <<>>]

IndicatorsInit ==
    /\ candles \in SeqsOf(CandlePool, 0, MaxCandles)
    /\ grid_params \in GridParamsPool
    /\ atr_values = NotComputed
    /\ grid_levels = NotComputed
    /\ ArbIdle /\ PricingIdle /\ OpreIdle /\ BatchIdle /\ OthersIdle

\* A call of atr(candles, atr_len).
ComputeAtr ==
    /\ ~atr_values.done
    /\ atr_values' = [NotComputed EXCEPT !.done = TRUE,
                                         !.values = atr(candles, grid_params.atr_len)]
    /\ UNCHANGED <<candles, grid_params, grid_levels, indicator_rest>>

\* A call of generate_grid_levels(candles, grid_params).
GenerateGridLevels ==
    /\ ~grid_levels.done
    /\ LET g == generate_grid_levels(candles, grid_params)
       IN grid_levels' = [NotComputed EXCEPT !.done = TRUE,
                                             !.panicked = g.panicked,
                                             !.premium = g.premium,
                                             !.discount = g.discount]
    /\ UNCHANGED <<candles, grid_params, atr_values, indicator_rest>>

IndicatorsNext == ComputeAtr \/ GenerateGridLevels

SpecIndicators == IndicatorsInit /\ [][IndicatorsNext]_vars_all

\* C19: generate_grid_levels returns a premium vector and a discount vector
\* with one element per input candle, for every candle list (the empty one and
\* those shorter than ma_len or atr_len included) and for Rma and Sma.
C19_GridLevelsOnePerCandle ==
    grid_levels.done =>
        /\ ~grid_levels.panicked
        /\ Len(grid_levels.premium) = Len(candles)
        /\ Len(grid_levels.discount) = Len(candles)

\* C19 on the candle lists that are not empty.
C19_HoldsForNonEmptyLists ==
    (grid_levels.done /\ candles # <<>>) =>
        /\ ~grid_levels.panicked
        /\ Len(grid_levels.premium) = Len(candles)
        /\ Len(grid_levels.discount) = Len(candles)

\* C20: atr(candles, length) is rma(true_range(candles), length), the true
\* range being 0 for the first candle and max(high - low, |high - previous
\* close|, |low - previous close|) for every later one, and the result has one
\* value per candle.
C20_AtrIsRmaOfTrueRange ==
    atr_values.done =>
        /\ atr_values.values = rma(true_range(candles), grid_params.atr_len)
        /\ \A i \in DOMAIN candles :
              true_range(candles)[i] =
                  IF i = 1 THEN Rat(0, 1) ELSE Rat(true_range_at(candles, i), 1)
        /\ Len(atr_values.values) = Len(candles)

\* C20 on the candle lists that are not empty.
C20_HoldsForNonEmptyLists ==
    (atr_values.done /\ candles # <<>>) =>
        /\ atr_values.values = rma(true_range(candles), grid_params.atr_len)
        /\ Len(atr_values.values) = Len(candles)

\* ======================================================== trend/ema_cross
\* x < y on f64 values: false when either is NaN.
RatLess(x, y) == ~IsNaN(x) /\ ~IsNaN(y) /\ x.n * y.d < y.n * x.d

\* moving_average over the first window_size values instead of the last.
moving_average_of_first(data, window_size) ==
    RatDiv(RatSum([i \in 1..Len(data) |-> Rat(data[i], 1)],
                  1, Min(window_size, Len(data))),
           window_size)

\* moving_average: data.iter().rev().take(window_size).sum() / window_size;
\* take stops at the start of data, the divisor stays window_size.
moving_average(data, window_size) ==
    RatDiv(RatSum([i \in 1..Len(data) |-> Rat(data[i], 1)],
                  Max(1, Len(data) - window_size + 1), Len(data)),
           window_size)

\* MovingAverageCrossover::analyze.
analyze(strategy, data) ==
    IF Len(data) < strategy.long_window
    THEN "Hold"
    ELSE LET short_ma == moving_average(data, strategy.short_window)
             long_ma == moving_average(data, strategy.long_window)
         IN IF RatLess(long_ma, short_ma) THEN "Buy"
            ELSE IF RatLess(short_ma, long_ma) THEN "Sell"
            ELSE "Hold"

\* Largest window of a strategy, and longest series, in the generic inputs.
MaxWindow == 3
MaxData == 4

\* MovingAverageCrossover::new(short_window, long_window).
Strategy(short, long) == [short_window |-> short, long_window |-> long]

\* The series of test_moving_average_crossover, for the strategy new(3, 5).
FixtureSeries ==
    {<<1, 2, 3>>, <<1, 2, 3, 4, 5, 6, 7>>, <<7, 6, 5, 4, 3, 2, 1>>,
     <<1, 2, 3, 4, 5, 6>>}

CrossoverInit ==
    /\ \/ /\ ma_strategy \in {Strategy(sw, lw) : sw \in 0..MaxWindow, lw \in 0..MaxWindow}
          /\ market_data \in SeqsOf({1, 2, 4}, 0, MaxData)
       \/ /\ ma_strategy = Strategy(3, 5)
          /\ market_data \in FixtureSeries
    /\ signal = "none"
    /\ ArbIdle /\ PricingIdle /\ OpreIdle /\ IndicatorsIdle /\ BatchIdle
    /\ HedgeIdle /\ HftIdle

\* A call of strategy.analyze(market_data).
Analyze ==
    /\ signal = "none"
    /\ signal' = analyze(ma_strategy, market_data)
    /\ UNCHANGED <<ma_strategy, market_data, crossover_rest>>

CrossoverNext == Analyze

SpecCrossover == CrossoverInit /\ [][CrossoverNext]_vars_all

\* How many of the last w values the series has: w, or all of them when it
\* is shorter.
PresentOfLast(data, w) == Min(w, Len(data))

\* The last w values of the series, as many as there are.
LastValues(data, w) == SubSeq(data, Len(data) - PresentOfLast(data, w) + 1, Len(data))

\* Sum of the last w values of the series, as many as there are.
SumOfLast(data, w) == SumSeq(LastValues(data, w), PresentOfLast(data, w))

\* The signal for a short quantity short_num / short_den against a long one
\* long_num / long_den, compared by cross-multiplication (a denominator of 0
\* goes with a numerator of 0 here, and then neither is greater).
SignalOf(short_num, short_den, long_num, long_den) ==
    IF short_num * long_den > long_num * short_den THEN "Buy"
    ELSE IF short_num * long_den < long_num * short_den THEN "Sell"
    ELSE "Hold"

\* C21 as claimed: analyze returns Hold when the series has fewer than
\* long_window values; otherwise Buy when the mean of the last short_window
\* values is greater than the mean of the last long_window values, Sell when
\* it is smaller, Hold when they are equal.  The mean of the last w values is
\* their sum divided by their number.
C21_CrossoverSignalByMeans ==
    signal # "none" =>
        LET sw == ma_strategy.short_window
            lw == ma_strategy.long_window
            n == Len(market_data)
        IN IF n < lw
           THEN signal = "Hold"
           ELSE signal = SignalOf(SumOfLast(market_data, sw), PresentOfLast(market_data, sw),
                                  SumOfLast(market_data, lw), PresentOfLast(market_data, lw))

\* C21: analyze returns Hold when the series has fewer than long_window
\* values; otherwise it compares the sum of the last short_window values
\* divided by short_window with the sum of the last long_window values
\* divided by long_window, each sum taken over the values there are: Buy when
\* the short quotient is greater, Sell when it is smaller, Hold when they are
\* equal or a window is 0.
C21_CrossoverSignal ==
    signal # "none" =>
        LET sw == ma_strategy.short_window
            lw == ma_strategy.long_window
            n == Len(market_data)
        IN IF n < lw
           THEN signal = "Hold"
           ELSE signal = SignalOf(SumOfLast(market_data, sw), sw,
                                  SumOfLast(market_data, lw), lw)

\* Sell although the two values the series has are equal: the short window is
\* one longer than the series, so the short sum is divided by 3.
C21_Witness ==
    /\ signal = "Sell"
    /\ ma_strategy.short_window = 3 /\ ma_strategy.long_window = 2
    /\ market_data = <<4, 4>>

\* Sell on a series longer than both windows that is not monotone.
C21_WitnessFullWindows ==
    /\ signal = "Sell"
    /\ ma_strategy.short_window = 2 /\ ma_strategy.long_window = 3
    /\ market_data = <<1, 4, 2, 2>>

\* Hold with a window of 0 on a series that is not constant.
C21_WitnessZeroWindow ==
    /\ signal = "Hold"
    /\ ma_strategy.short_window = 0 /\ ma_strategy.long_window = 2
    /\ market_data = <<1, 4>>

\* C22: with short_window 3 and long_window 5, analyze returns Hold on the
\* series 1, 2, 3, 4, 5, 6, as test_moving_average_crossover asserts.
C22_HoldOnSixRisingValues ==
    (signal # "none" /\ ma_strategy = Strategy(3, 5)
        /\ market_data = <<1, 2, 3, 4, 5, 6>>) => signal = "Hold"

\* The other three assertions of test_moving_average_crossover.
C22_OtherTestAssertions ==
    (signal # "none" /\ ma_strategy = Strategy(3, 5)) =>
        /\ market_data = <<1, 2, 3>> => signal = "Hold"
        /\ market_data = <<1, 2, 3, 4, 5, 6, 7>> => signal = "Buy"
        /\ market_data = <<7, 6, 5, 4, 3, 2, 1>> => signal = "Sell"


\* ============================================================ strato-ddhp
\* x * y on f64 values.
RatMul(x, y) ==
    IF IsNaN(x) \/ IsNaN(y) THEN RatNaN ELSE Rat(x.n * y.n, x.d * y.d)

\* x / y on f64 values, for a divisor other than 0.0 (0.0 / 0.0 is NaN; the
\* inputs below leave a zero leverage out).
RatQuot(x, y) ==
    IF IsNaN(x) \/ IsNaN(y) \/ y.n = 0 THEN RatNaN
    ELSE IF y.n > 0 THEN Rat(x.n * y.d, x.d * y.n)
    ELSE Rat(-(x.n * y.d), x.d * (-y.n))

\* f64::abs
RatAbs(x) == IF IsNaN(x) THEN RatNaN ELSE Rat(Abs(x.n), x.d)

calculate_total_delta(delta, number_of_contracts) ==
    RatMul(delta, number_of_contracts)

calculate_notional_value(total_delta, underlying_price) ==
    RatMul(total_delta, underlying_price)

calculate_required_margin(notional_value, leverage) ==
    RatQuot(notional_value, leverage)

calculate_fees(notional_value, transaction_fee_rate) ==
    RatMul(notional_value, transaction_fee_rate)

calculate_perps_needed(current_total_delta, target_total_delta) ==
    RatSub(target_total_delta, current_total_delta)

\* get_perps_needed with the notional value taken from the signed
\* perps_needed.
get_perps_needed_signed_notional(current_price, current_delta, number_of_contracts, target_total_delta, leverage, transaction_fee_rate) ==
    LET current_total_delta == calculate_total_delta(current_delta, number_of_contracts)
        perps_needed == calculate_perps_needed(current_total_delta, target_total_delta)
        notional_value == calculate_notional_value(perps_needed, current_price)
        required_margin == calculate_required_margin(notional_value, leverage)
        fees == calculate_fees(notional_value, transaction_fee_rate)
    IN <<perps_needed, required_margin, fees>>

get_perps_needed(current_price, current_delta, number_of_contracts, target_total_delta, leverage, transaction_fee_rate) ==
    LET current_total_delta == calculate_total_delta(current_delta, number_of_contracts)
        perps_needed == calculate_perps_needed(current_total_delta, target_total_delta)
        notional_value == calculate_notional_value(RatAbs(perps_needed), current_price)
        required_margin == calculate_required_margin(notional_value, leverage)
        fees == calculate_fees(notional_value, transaction_fee_rate)
    IN <<perps_needed, required_margin, fees>>

\* The arguments of test_get_perps_needed.
HedgeFixture ==
    <<Rat(100, 1), Rat(1, 4), Rat(10, 1), Rat(0, 1), Rat(10, 1), Rat(1, 1000)>>

\* Arguments of get_perps_needed: price, delta, contracts, target, leverage,
\* fee rate; every sign occurs, the leverage is never 0.
HedgeArgs ==
    {<<Rat(p, 1), Rat(dl, 4), Rat(nc, 1), Rat(tg, 2), Rat(lv, 1), Rat(fr, 8)>> :
        p \in {-1, 1, 2}, dl \in {-2, -1, 0, 1, 2}, nc \in {1, 2},
        tg \in {-1, 0, 1}, lv \in {-2, 1, 2}, fr \in {-2, 1, 2}}
    \cup {HedgeFixture}

HedgeInit ==
    /\ perps_args \in HedgeArgs
    /\ perps_result = <<>>
    /\ ArbIdle /\ PricingIdle /\ OpreIdle /\ IndicatorsIdle /\ BatchIdle
    /\ CrossoverIdle /\ HftIdle

\* A call of get_perps_needed.
GetPerpsNeeded ==
    /\ perps_result = <<>>
    /\ perps_result' = get_perps_needed(perps_args[1], perps_args[2], perps_args[3],
                                        perps_args[4], perps_args[5], perps_args[6])
    /\ UNCHANGED <<perps_args, hedge_rest>>

HedgeNext == GetPerpsNeeded

SpecHedge == HedgeInit /\ [][HedgeNext]_vars_all

\* x is the fraction num / den (den # 0).
IsFraction(x, num, den) == ~IsNaN(x) /\ x.n * den = num * x.d

\* C23: get_perps_needed returns perps_needed = target_total_delta -
\* current_delta * number_of_contracts (signed), margin = |perps_needed| *
\* price / leverage and fees = |perps_needed| * price * fee_rate; margin and
\* fees are non-negative when price, leverage and fee rate are positive,
\* whatever the sign of perps_needed.
C23_PerpsMarginFees ==
    perps_result # <<>> =>
        LET price == perps_args[1]
            delta == perps_args[2]
            contracts == perps_args[3]
            target == perps_args[4]
            leverage == perps_args[5]
            fee_rate == perps_args[6]
            pnum == target.n * delta.d * contracts.d - delta.n * contracts.n * target.d
            pden == target.d * delta.d * contracts.d
        IN /\ IsFraction(perps_result[1], pnum, pden)
           /\ IsFraction(perps_result[2], Abs(pnum) * price.n * leverage.d,
                         pden * price.d * leverage.n)
           /\ IsFraction(perps_result[3], Abs(pnum) * price.n * fee_rate.n,
                         pden * price.d * fee_rate.d)
           /\ (price.n > 0 /\ leverage.n > 0 /\ fee_rate.n > 0) =>
                 perps_result[2].n >= 0 /\ perps_result[3].n >= 0

\* A short hedge (negative perps_needed) with positive margin and fees: the
\* values test_get_perps_needed expects.
C23_Witness ==
    /\ perps_args = HedgeFixture
    /\ perps_result = <<Rat(-5, 2), Rat(25, 1), Rat(1, 4)>>


\* ============================================================ hft/hft_oir
\* Values of VOI, OIR, MPB and q are counted in hundredths (15 is 0.15).
DEFAULT_K == 5
DEFAULT_Q == 15

\* Option<T>
None == [some |-> FALSE, value |-> 0]
Some(v) == [some |-> TRUE, value |-> v]
unwrap_or(opt, default) == IF opt.some THEN opt.value ELSE default

\* Calls of parametrized_linear_model in one run, and largest explicit k.
MaxCalls == 6
MaxK == 3

\* if history.len() > k { history.remove(0); }
keep_history_size(history, k) ==
    IF Len(history) > k THEN Tail(history) ELSE history

\* TradingState::parametrized_linear_model on the state st =
\* [voi_history, oir_history, mpb_history]; the result is the state after
\* the call, the window used, and the returned signal.
parametrized_linear_model(st, current_voi, current_oir, current_mpb, k_opt, q_opt) ==
    LET k == unwrap_or(k_opt, DEFAULT_K)
        q == unwrap_or(q_opt, DEFAULT_Q)
        voi == keep_history_size(Append(st.voi_history, current_voi), k)
        oir == keep_history_size(Append(st.oir_history, current_oir), k)
        mpb == keep_history_size(Append(st.mpb_history, current_mpb), k)
        weighted_sum == SumSeq(voi, Len(voi)) + SumSeq(oir, Len(oir))
                            + SumSeq(mpb, Len(mpb))
    IN [voi_history |-> voi, oir_history |-> oir, mpb_history |-> mpb, k |-> k,
        signal |-> IF weighted_sum > q THEN 1
                   ELSE IF weighted_sum < -q THEN -1
                   ELSE 0]

\* (current_voi, current_oir, current_mpb) of a call.
CurrentValues == {<<10, 10, 10>>, <<-10, -10, 0>>, <<0, 10, -10>>}

KOptions == {None} \cup {Some(k) : k \in 0..MaxK}
QOptions == {None, Some(5)}

\* TradingState::new()
HftInit ==
    /\ voi_history = <<>> /\ oir_history = <<>> /\ mpb_history = <<>>
    /\ hft_calls = 0 /\ hft_k = 0 /\ hft_signal = 0
    /\ ArbIdle /\ PricingIdle /\ OpreIdle /\ IndicatorsIdle /\ BatchIdle
    /\ CrossoverIdle /\ HedgeIdle

\* A call of state.parametrized_linear_model(voi, oir, mpb, k, q).
ParametrizedLinearModel ==
    /\ hft_calls < MaxCalls
    /\ \E cur \in CurrentValues, k_opt \in KOptions, q_opt \in QOptions :
          LET st == [voi_history |-> voi_history, oir_history |-> oir_history,
                     mpb_history |-> mpb_history]
              out == parametrized_linear_model(st, cur[1], cur[2], cur[3], k_opt, q_opt)
          IN /\ voi_history' = out.voi_history
             /\ oir_history' = out.oir_history
             /\ mpb_history' = out.mpb_history
             /\ hft_k' = out.k
             /\ hft_signal' = out.signal
    /\ hft_calls' = hft_calls + 1
    /\ UNCHANGED hft_rest

HftNext == ParametrizedLinearModel

SpecHft == HftInit /\ [][HftNext]_vars_all

\* C24: after every call of parametrized_linear_model with window size k,
\* each of voi_history, oir_history and mpb_history has at most k values,
\* whatever k the earlier calls used, and the three have equal length.
C24_HistoriesWithinWindow ==
    hft_calls > 0 =>
        /\ Len(voi_history) <= hft_k
        /\ Len(oir_history) <= hft_k
        /\ Len(mpb_history) <= hft_k
        /\ Len(voi_history) = Len(oir_history)
        /\ Len(oir_history) = Len(mpb_history)

\* The part of C24 the code keeps: the three histories have equal length.
C24_HistoriesEqualLength ==
    Len(voi_history) = Len(oir_history) /\ Len(oir_history) = Len(mpb_history)

\* The histories grow by at most one value a call and lose at most one.
C24_OneValueRemovedPerCall ==
    [][Len(voi_history') \in {Len(voi_history), Len(voi_history) + 1}]_vars_all

====
